---- MODULE Spec2Model ----
(***************************************************************************)
(* Model of the DOM-to-text pipeline of dev-browser (packages/dev-browser/ *)
(* src/dom): extraction, visibility filter, paint-order filter, bounding   *)
(* box propagation, compound components and serialization.                 *)
(*                                                                         *)
(* Conventions.                                                            *)
(*  - null / undefined of an optional value is the empty sequence << >>,   *)
(*    a present value v is << v >>.                                        *)
(*  - node.attributes is a function from the attribute names present to    *)
(*    their values.                                                        *)
(*  - a JavaScript number is a binary floating point value: every          *)
(*    arithmetic result is rounded to MantBits significant bits, ties to   *)
(*    even (IEEE 754 has 53; the model keeps the rounding and narrows the  *)
(*    significand).                                                        *)
(*  - a string built by the code is the sequence of its pieces.            *)
(***************************************************************************)
EXTENDS Integers, Sequences, FiniteSets, TLC

VARIABLES
    pc,             \* position of the running call
    inner,          \* getContainmentPercentage: argument inner
    outer,          \* getContainmentPercentage: argument outer
    pct,            \* getContainmentPercentage: returned value
    page,           \* the live page: its document and its frames
    options,        \* GetLLMTreeOptions of the call
    rawTree,        \* extractRawDOM(page)
    visibleTree,    \* filterVisibleNodes(rawTree)
    paintFiltered,  \* filterByPaintOrder(visibleTree)
    bboxFiltered,   \* filterByBboxPropagation(...)
    result,         \* the LLMTreeResult returned
    previous,       \* the LLMTreeResult of the previous getLLMTree call on the page
    compounds,      \* getCompoundComponents of every node of rawTree
    standalone,     \* buildSelectorMap(root, assignIndices(root))
    heap,           \* the node objects allocated, and the roots the caller holds
    registry,       \* serve: the Map from page name to BrowserContext
    contexts,       \* serve: the browser contexts created so far
    requests        \* serve: the HTTP requests being handled

vars ==
    <<pc, inner, outer, pct, page, options, rawTree, visibleTree, paintFiltered,
      bboxFiltered, result, previous, compounds, standalone, heap, registry, contexts,
      requests>>

(***************************************************************************)
(* Floating point arithmetic of JavaScript numbers                         *)
(***************************************************************************)
\* significand width of the modelled numbers
MantBits == 3

RECURSIVE Pow2(_)
Pow2(k) == IF k = 0 THEN 1 ELSE 2 * Pow2(k - 1)

\* least e with n < 2^(MantBits + e)
RECURSIVE ExpOf(_, _)
ExpOf(n, e) == IF n < Pow2(MantBits + e) THEN e ELSE ExpOf(n, e + 1)

\* round the exact value q + r/m (0 <= r < m) to an integer, ties to even
RoundHalfEven(q, r, m) ==
    IF 2 * r > m \/ (2 * r = m /\ q % 2 = 1) THEN q + 1 ELSE q

\* the number nearest to the natural n
Fl(n) ==
    IF n < Pow2(MantBits) THEN n
    ELSE LET e == ExpOf(n, 0)
             u == Pow2(e)
         IN  RoundHalfEven(n \div u, n % u, u) * u

\* the numbers among 0..max
Numbers(max) == {n \in 0..max : Fl(n) = n}

\* least k with a * 2^k >= b * 2^(MantBits - 1)
RECURSIVE ShiftOf(_, _, _)
ShiftOf(a, b, k) ==
    IF a * Pow2(k) >= b * Pow2(MantBits - 1) THEN k ELSE ShiftOf(a, b, k + 1)

RECURSIVE Reduce(_)
Reduce(f) ==
    IF f.n = 0 THEN [n |-> 0, d |-> 1]
    ELSE IF f.d > 1 /\ f.n % 2 = 0 THEN Reduce([n |-> f.n \div 2, d |-> f.d \div 2])
    ELSE f

\* the number nearest to a / b (a >= 0, b > 0), as the fraction n / d, d a power of 2
FlDiv(a, b) ==
    IF a = 0 THEN [n |-> 0, d |-> 1]
    ELSE IF a >= b * Pow2(MantBits) THEN
        LET e == ExpOf(a \div b, 0)
            u == b * Pow2(e)
        IN  [n |-> RoundHalfEven(a \div u, a % u, u) * Pow2(e), d |-> 1]
    ELSE LET k == ShiftOf(a, b, 0)
             s == a * Pow2(k)
         IN  Reduce([n |-> RoundHalfEven(s \div b, s % b, b), d |-> Pow2(k)])

Zero == [n |-> 0, d |-> 1]

\* f >= num / den
FlGeq(f, num, den) == f.n * den >= num * f.d

Max(a, b) == IF a >= b THEN a ELSE b
Min(a, b) == IF a <= b THEN a ELSE b

(***************************************************************************)
(* filters.ts: containment                                                 *)
(***************************************************************************)
getContainmentPercentage(in, out) ==
    LET intersectLeft == Max(in.x, out.x)
        intersectRight == Min(Fl(in.x + in.width), Fl(out.x + out.width))
        intersectTop == Max(in.y, out.y)
        intersectBottom == Min(Fl(in.y + in.height), Fl(out.y + out.height))
    IN  IF intersectRight <= intersectLeft \/ intersectBottom <= intersectTop
        THEN Zero
        ELSE LET intersectionArea ==
                     Fl(Fl(intersectRight - intersectLeft) * Fl(intersectBottom - intersectTop))
                 innerArea == Fl(in.width * in.height)
             IN  IF innerArea = 0 THEN Zero ELSE FlDiv(intersectionArea, innerArea)

isFullyContained(in, out) == FlGeq(getContainmentPercentage(in, out), 99, 100)

(***************************************************************************)
(* types.ts: RawDOMNode.  Fields no modelled function reads (scrollLeft,   *)
(* scrollWidth, clientWidth, overflow, pointerEvents, viewport) are left   *)
(* out.  el and at are ghost fields: the live element the node was         *)
(* extracted from (<< >> for a hand-built node), and the place of the node *)
(* in the tree that extractRawDOM returns.                                 *)
(***************************************************************************)
NoRect == [x |-> 0, y |-> 0, width |-> 0, height |-> 0]
NoAttrs == [a \in {} |-> ""]

ComputedStyles(display, visibility, opacity, cursor, backgroundColor) ==
    [display |-> display, visibility |-> visibility, opacity |-> opacity,
     cursor |-> cursor, backgroundColor |-> backgroundColor]

TextStyles == ComputedStyles("inline", "visible", "1", "auto", "transparent")
ShadowStyles == ComputedStyles("contents", "visible", "1", "auto", "transparent")

RawDOMNode(nodeType, tagName, attributes, textContent, boundingRect, computedStyles) ==
    [nodeId |-> 0, nodeType |-> nodeType, tagName |-> tagName,
     attributes |-> attributes, textContent |-> textContent,
     boundingRect |-> boundingRect, computedStyles |-> computedStyles,
     isScrollable |-> FALSE, scrollTop |-> 0, scrollHeight |-> 0, clientHeight |-> 0,
     paintOrder |-> 0, children |-> << >>, shadowRoots |-> << >>, shadowMode |-> << >>,
     contentDocument |-> << >>, isFrame |-> FALSE, frameUrl |-> << >>, el |-> << >>,
     at |-> << >>]

HasAttr(node, a) == a \in DOMAIN node.attributes
\* node.attributes[a] where undefined and '' both count as absent (JavaScript falsy)
Truthy(node, a) == HasAttr(node, a) /\ node.attributes[a] # ""
\* node.attributes[a] === v
AttrIs(node, a, v) == HasAttr(node, a) /\ node.attributes[a] = v

\* String.prototype.toLowerCase on the strings the model uses
toLowerCase(s) ==
    CASE s = "BUTTON" -> "button"
      [] s = "Button" -> "button"
      [] s = "ComboBox" -> "combobox"
      [] s = "INPUT" -> "input"
      [] s = "BODY" -> "body"
      [] s = "DIV" -> "div"
      [] s = "SPAN" -> "span"
      [] s = "A" -> "a"
      [] s = "SELECT" -> "select"
      [] s = "OPTION" -> "option"
      [] s = "IFRAME" -> "iframe"
      [] s = "SCRIPT" -> "script"
      [] s = "X-HOST" -> "x-host"
      [] s = "FILE" -> "file"
      [] s = "Hidden" -> "hidden"
      [] OTHER -> s

\* parseFloat on the opacity strings the model uses, in hundredths; << >> is NaN
parseFloat(s) ==
    CASE s = "1" -> <<100>>
      [] s = "0.5" -> <<50>>
      [] s = "0" -> <<0>>
      [] s = "-0.5" -> <<-50>>
      [] OTHER -> << >>

\* parseInt(s, 10) on the tabindex strings the model uses; << >> is NaN
parseInt(s) ==
    CASE s = "0" -> <<0>>
      [] s = "1" -> <<1>>
      [] s = "-1" -> <<-1>>
      [] OTHER -> << >>

INTERACTIVE_TAGS ==
    {"button", "input", "select", "textarea", "a", "details", "summary", "option", "optgroup"}

INTERACTIVE_ROLES ==
    {"button", "link", "menuitem", "menuitemcheckbox", "menuitemradio", "option", "radio",
     "checkbox", "tab", "textbox", "combobox", "slider", "spinbutton", "listbox",
     "searchbox", "switch", "treeitem"}

MIN_INTERACTIVE_IFRAME_SIZE == 100

(***************************************************************************)
(* visibility.ts                                                           *)
(***************************************************************************)
\* isVisible(node) as every caller in the pipeline calls it (checkViewport = false)
isVisible(node) ==
    IF node.nodeType = "TEXT_NODE" THEN TRUE
    ELSE IF node.nodeType = "DOCUMENT_FRAGMENT_NODE" THEN TRUE
    ELSE IF node.computedStyles.display = "none" THEN FALSE
    ELSE IF node.computedStyles.visibility = "hidden" THEN FALSE
    ELSE LET opacity == parseFloat(node.computedStyles.opacity)
         IN  IF opacity # << >> /\ opacity[1] <= 0
             THEN node.tagName = "input" /\ AttrIs(node, "type", "file")
             ELSE IF /\ node.boundingRect.width = 0 /\ node.boundingRect.height = 0
                     /\ node.tagName = "input" /\ AttrIs(node, "type", "hidden")
                  THEN FALSE
                  ELSE TRUE

\* a variant of filterVisibleNodes that tests the node and does not descend into it
filterVisibleRoot(node) == IF ~isVisible(node) THEN << >> ELSE <<node>>

RECURSIVE filterVisibleNodes(_)
\* the nodes of a list that filterVisibleNodes keeps, filtered
RECURSIVE FilterVisibleList(_)
FilterVisibleList(nodes) ==
    IF nodes = << >> THEN << >>
    ELSE filterVisibleNodes(Head(nodes)) \o FilterVisibleList(Tail(nodes))

\* << >> is null, << n >> the filtered node
filterVisibleNodes(node) ==
    IF ~isVisible(node) THEN << >>
    ELSE <<[node EXCEPT
              !.children = FilterVisibleList(node.children),
              !.shadowRoots = FilterVisibleList(node.shadowRoots),
              !.contentDocument =
                  IF node.contentDocument # << >>
                  THEN filterVisibleNodes(node.contentDocument[1])
                  ELSE << >>]>>

(***************************************************************************)
(* interactive.ts                                                          *)
(***************************************************************************)
EventHandlers ==
    {"onmousedown", "onmouseup", "onkeydown", "onkeyup", "ontouchstart", "ontouchend"}

\* classAttr.includes(pattern) || idAttr.includes(pattern) for one of the search
\* patterns, on the class and id values the model uses
MatchesSearchPattern(node) ==
    \/ HasAttr(node, "class") /\ toLowerCase(node.attributes["class"]) \in {"search-icon", "magnify"}
    \/ HasAttr(node, "id") /\ toLowerCase(node.attributes["id"]) \in {"search", "query"}

isInteractive(node) ==
    IF node.nodeType = "TEXT_NODE" THEN FALSE
    ELSE IF node.nodeType = "DOCUMENT_FRAGMENT_NODE" THEN FALSE
    ELSE LET tagName == toLowerCase(node.tagName)
         IN  IF tagName = "input" /\ AttrIs(node, "type", "hidden") THEN FALSE
             ELSE \/ tagName \in INTERACTIVE_TAGS
                  \/ HasAttr(node, "role") /\ node.attributes["role"] # ""
                        /\ toLowerCase(node.attributes["role"]) \in INTERACTIVE_ROLES
                  \/ HasAttr(node, "onclick")
                  \/ \E handler \in EventHandlers : HasAttr(node, handler)
                  \/ HasAttr(node, "tabindex")
                        /\ LET tabindex == parseInt(node.attributes["tabindex"])
                           IN  tabindex # << >> /\ tabindex[1] >= 0
                  \/ AttrIs(node, "contenteditable", "true")
                  \/ AttrIs(node, "contenteditable", "")
                  \/ node.computedStyles.cursor = "pointer"
                  \/ node.isFrame
                        /\ node.boundingRect.width >= MIN_INTERACTIVE_IFRAME_SIZE
                        /\ node.boundingRect.height >= MIN_INTERACTIVE_IFRAME_SIZE
                  \/ MatchesSearchPattern(node) /\ node.computedStyles.cursor = "pointer"

\* node.attributes.role?.toLowerCase(): << >> when the attribute is absent
RoleOf(node) ==
    IF HasAttr(node, "role") THEN <<toLowerCase(node.attributes["role"])>> ELSE << >>

isPropagatingElement(node) ==
    LET tagName == toLowerCase(node.tagName)
        role == RoleOf(node)
    IN  \/ tagName = "button" \/ tagName = "a"
        \/ /\ tagName \in {"div", "span", "input"}
           /\ role = <<"button">> \/ role = <<"combobox">>

\* a variant of shouldKeepChildInPropagatingParent that keeps form elements only
shouldKeepFormElement(child) ==
    toLowerCase(child.tagName) \in {"input", "select", "textarea", "label"}

shouldKeepChildInPropagatingParent(child) ==
    LET tagName == toLowerCase(child.tagName)
        role == RoleOf(child)
    IN  IF child.nodeType = "TEXT_NODE" THEN FALSE
        ELSE \/ tagName \in {"input", "select", "textarea", "label"}
             \/ HasAttr(child, "onclick")
             \/ HasAttr(child, "aria-label")
             \/ role # << >> /\ role[1] # "" /\ role[1] \in INTERACTIVE_ROLES
             \/ isPropagatingElement(child)

(***************************************************************************)
(* filters.ts: paint order and bounding box propagation                    *)
(***************************************************************************)
\* the alpha the regular expression of isOpaqueElement captures, in hundredths, on
\* the colours the model uses; << >> when it captures none
CapturedAlpha(bgColor) ==
    CASE bgColor = "rgba(0, 0, 0, 0.5)" -> <<50>>
      [] bgColor = "rgba(0, 0, 0, 0.9)" -> <<90>>
      [] bgColor = "rgba(0,0,0,0)" -> <<0>>
      [] OTHER -> << >>

isOpaqueElement(node) ==
    LET bgColor == node.computedStyles.backgroundColor
    IN  IF bgColor = "" \/ bgColor = "transparent" \/ bgColor = "rgba(0, 0, 0, 0)"
        THEN FALSE
        ELSE LET alpha == CapturedAlpha(bgColor)
             IN  ~(alpha # << >> /\ alpha[1] < 90)

isOccludedByPaintOrder(node, allNodes) ==
    IF node.boundingRect.width = 0 \/ node.boundingRect.height = 0 THEN FALSE
    ELSE \E i \in 1..Len(allNodes) :
            LET overlayNode == allNodes[i]
            IN  /\ overlayNode.paintOrder > node.paintOrder
                /\ ~(overlayNode.boundingRect.width = 0 \/ overlayNode.boundingRect.height = 0)
                /\ isFullyContained(node.boundingRect, overlayNode.boundingRect)
                /\ isOpaqueElement(overlayNode)

RECURSIVE flattenTree(_)
RECURSIVE FlattenList(_)
FlattenList(nodes) ==
    IF nodes = << >> THEN << >>
    ELSE flattenTree(Head(nodes)) \o FlattenList(Tail(nodes))

flattenTree(node) ==
    <<node>> \o FlattenList(node.children) \o FlattenList(node.shadowRoots)
        \o FlattenList(node.contentDocument)

\* processNode of filterByPaintOrder: a copy of the node
RECURSIVE PaintProcessNode(_)
RECURSIVE PaintProcessList(_)
PaintProcessList(nodes) ==
    IF nodes = << >> THEN << >>
    ELSE <<PaintProcessNode(Head(nodes))>> \o PaintProcessList(Tail(nodes))

PaintProcessNode(node) ==
    [node EXCEPT
        !.children = PaintProcessList(node.children),
        !.shadowRoots = PaintProcessList(node.shadowRoots),
        !.contentDocument = PaintProcessList(node.contentDocument)]

filterByPaintOrder(root) ==
    LET allNodes == flattenTree(root)
    IN  PaintProcessNode(root)

\* processNode of filterByBboxPropagation; propagatingAncestor is << >> (null) or << n >>
RECURSIVE BboxProcessNode(_, _)
\* the loop over node.children: the children kept, processed
RECURSIVE BboxProcessChildren(_, _, _)
BboxProcessChildren(children, ancestorToCheck, newPropagatingAncestor) ==
    IF children = << >> THEN << >>
    ELSE LET child == Head(children)
             rest == BboxProcessChildren(Tail(children), ancestorToCheck, newPropagatingAncestor)
         IN  IF /\ ancestorToCheck # << >>
                /\ isFullyContained(child.boundingRect, ancestorToCheck[1].boundingRect)
                /\ ~shouldKeepChildInPropagatingParent(child)
             THEN rest
             ELSE <<BboxProcessNode(child, newPropagatingAncestor)>> \o rest

RECURSIVE BboxProcessList(_, _)
BboxProcessList(nodes, propagatingAncestor) ==
    IF nodes = << >> THEN << >>
    ELSE <<BboxProcessNode(Head(nodes), propagatingAncestor)>>
            \o BboxProcessList(Tail(nodes), propagatingAncestor)

\* a variant of processNode that keeps the propagating ancestor on entering a content
\* document
BboxProcessNodeThrough(node, propagatingAncestor) ==
    LET isThisPropagating == isPropagatingElement(node)
        newPropagatingAncestor == IF isThisPropagating THEN <<node>> ELSE propagatingAncestor
        ancestorToCheck == IF isThisPropagating THEN <<node>> ELSE propagatingAncestor
    IN  [node EXCEPT
            !.children = BboxProcessChildren(node.children, ancestorToCheck, newPropagatingAncestor),
            !.shadowRoots = BboxProcessList(node.shadowRoots, newPropagatingAncestor),
            !.contentDocument = BboxProcessList(node.contentDocument, newPropagatingAncestor)]

BboxProcessNode(node, propagatingAncestor) ==
    LET isThisPropagating == isPropagatingElement(node)
        newPropagatingAncestor == IF isThisPropagating THEN <<node>> ELSE propagatingAncestor
        ancestorToCheck == IF isThisPropagating THEN <<node>> ELSE propagatingAncestor
    IN  [node EXCEPT
            !.children = BboxProcessChildren(node.children, ancestorToCheck, newPropagatingAncestor),
            !.shadowRoots = BboxProcessList(node.shadowRoots, newPropagatingAncestor),
            !.contentDocument = BboxProcessList(node.contentDocument, << >>)]

filterByBboxPropagation(root) == BboxProcessNode(root, << >>)

(***************************************************************************)
(* The live page (the browser, consumed through Playwright).  A string of  *)
(* text is the sequence of its words.  An element is named by its path in  *)
(* its document: child i of the element at path p is p \o <<i>>, its       *)
(* shadow root p \o <<0>>, and the body of the frame an iframe owns        *)
(* p \o <<-1>>.                                                            *)
(***************************************************************************)
DomText(words) == [nodeType |-> "TEXT_NODE", textContent |-> words]

DomElement(tagName, attributes, boundingRect, computedStyles) ==
    [nodeType |-> "ELEMENT_NODE", tagName |-> tagName, attributes |-> attributes,
     boundingRect |-> boundingRect, computedStyles |-> computedStyles,
     childNodes |-> << >>, shadowRoot |-> << >>,
     overflowX |-> "visible", overflowY |-> "visible",
     scrollTop |-> 0, scrollHeight |-> 0, clientHeight |-> 0,
     scrollWidth |-> 0, clientWidth |-> 0,
     src |-> "", frame |-> << >>]

\* length of a word, and of a text (its words and the spaces between them)
WordLen(w) == IF w \in {"x", "A", "B"} THEN 1 ELSE 2
RECURSIVE TextLen(_)
TextLen(words) ==
    IF words = << >> THEN 0
    ELSE IF Len(words) = 1 THEN WordLen(words[1])
    ELSE WordLen(Head(words)) + 1 + TextLen(Tail(words))

(***************************************************************************)
(* extract.ts: extractDOMScript, the walk injected into a document         *)
(***************************************************************************)
\* isScrollable(element)
DomIsScrollable(element) ==
    \/ element.overflowY \in {"auto", "scroll"} /\ element.scrollHeight > element.clientHeight
    \/ element.overflowX \in {"auto", "scroll"} /\ element.scrollWidth > element.clientWidth

\* getTextContent(element): the direct text of an element
RECURSIVE getTextContent(_)
getTextContent(childNodes) ==
    IF childNodes = << >> THEN << >>
    ELSE (IF Head(childNodes).nodeType = "TEXT_NODE" THEN Head(childNodes).textContent ELSE << >>)
            \o getTextContent(Tail(childNodes))

\* c holds nodeIdCounter and paintOrderCounter; the result is the node (<< >> for null)
\* and the counters after the call
RECURSIVE extractNode(_, _, _, _)
RECURSIVE ExtractChildNodes(_, _, _, _, _)
ExtractChildNodes(childNodes, i, depth, el, c) ==
    IF i > Len(childNodes) THEN [nodes |-> << >>, c |-> c]
    ELSE LET r == extractNode(childNodes[i], depth + 1, Append(el, i), c)
             rest == ExtractChildNodes(childNodes, i + 1, depth, el, r.c)
         IN  [nodes |-> r.node \o rest.nodes, c |-> rest.c]

Bump(c) ==
    [nodeIdCounter |-> c.nodeIdCounter + 1, paintOrderCounter |-> c.paintOrderCounter + 1]

extractShadowRoot(shadowRoot, mode, depth, el, c) ==
    LET kids == ExtractChildNodes(shadowRoot.childNodes, 1, depth, el, c)
    IN  IF kids.nodes = << >> THEN [node |-> << >>, c |-> kids.c]
        ELSE [node |->
                <<[RawDOMNode("DOCUMENT_FRAGMENT_NODE", "#shadow-root", NoAttrs, << >>,
                              NoRect, ShadowStyles)
                    EXCEPT !.nodeId = kids.c.nodeIdCounter,
                           !.paintOrder = kids.c.paintOrderCounter,
                           !.children = kids.nodes,
                           !.shadowMode = <<mode>>,
                           !.el = <<el>>]>>,
              c |-> Bump(kids.c)]

EXCLUDED_TAGS == {"script", "style", "noscript", "meta", "link", "head", "title"}

extractNode(node, depth, el, c) ==
    IF node.nodeType = "TEXT_NODE" THEN
        IF node.textContent = << >> \/ TextLen(node.textContent) <= 1
        THEN [node |-> << >>, c |-> c]
        ELSE [node |->
                <<[RawDOMNode("TEXT_NODE", "#text", NoAttrs, node.textContent,
                              \* the parent element's rectangle, set by the caller
                              NoRect, TextStyles)
                    EXCEPT !.nodeId = c.nodeIdCounter,
                           !.paintOrder = c.paintOrderCounter,
                           !.el = <<el>>]>>,
              c |-> Bump(c)]
    ELSE IF node.nodeType # "ELEMENT_NODE" THEN [node |-> << >>, c |-> c]
    ELSE IF toLowerCase(node.tagName) \in EXCLUDED_TAGS THEN [node |-> << >>, c |-> c]
    ELSE LET tagName == toLowerCase(node.tagName)
             isFrame == tagName = "iframe" \/ tagName = "frame"
             kids == ExtractChildNodes(node.childNodes, 1, depth, el, c)
             \* a text child takes the rectangle of its parent element
             children ==
                 [i \in 1..Len(kids.nodes) |->
                     IF kids.nodes[i].nodeType = "TEXT_NODE"
                     THEN [kids.nodes[i] EXCEPT !.boundingRect = node.boundingRect]
                     ELSE kids.nodes[i]]
             \* element.shadowRoot is null for a closed root
             shadow ==
                 IF node.shadowRoot # << >> /\ node.shadowRoot[1].mode = "open"
                 THEN extractShadowRoot(node.shadowRoot[1], "open", depth, Append(el, 0), kids.c)
                 ELSE [node |-> << >>, c |-> kids.c]
         IN  [node |->
                <<[RawDOMNode("ELEMENT_NODE", tagName, node.attributes,
                              getTextContent(node.childNodes), node.boundingRect,
                              node.computedStyles)
                    EXCEPT !.nodeId = shadow.c.nodeIdCounter,
                           !.isScrollable = DomIsScrollable(node),
                           !.scrollTop = node.scrollTop,
                           !.scrollHeight = node.scrollHeight,
                           !.clientHeight = node.clientHeight,
                           !.paintOrder = shadow.c.paintOrderCounter,
                           !.children = children,
                           !.shadowRoots = shadow.node,
                           !.shadowMode =
                               IF node.shadowRoot # << >> /\ node.shadowRoot[1].mode = "open"
                               THEN <<"open">> ELSE << >>,
                           !.isFrame = isFrame,
                           !.frameUrl = IF isFrame THEN <<node.src>> ELSE << >>,
                           !.el = <<el>>]>>,
              c |-> Bump(shadow.c)]

\* extractDOMScript run in the document whose body is body (<< >> when it has no root)
\* and whose elements have the paths that start with base
extractDOMScript(body, base) ==
    IF body = << >> THEN << >>
    ELSE extractNode(body[1], 0, base, [nodeIdCounter |-> 0, paintOrderCounter |-> 0]).node

(***************************************************************************)
(* extract.ts: extractRawDOM and processFrames.  A frame is a record of    *)
(* its url, the body of its document, whether evaluating in it throws      *)
(* (cross-origin, detached), whether asking its url throws (lost), and the *)
(* path its elements start with.  A page is its url, the body of its       *)
(* document and whether evaluating in it throws (navigation in progress).  *)
(***************************************************************************)
\* String.prototype.includes on the urls the model uses
Includes(s, sub) ==
    \/ s = sub
    \/ sub = ""
    \/ <<s, sub>> \in {<<"https://a.test/f/g", "https://a.test/f">>}

\* the frames of the iframes of a document, in document order
RECURSIVE childFrames(_, _)
RECURSIVE ChildFramesOfList(_, _, _)
ChildFramesOfList(childNodes, i, el) ==
    IF i > Len(childNodes) THEN << >>
    ELSE childFrames(childNodes[i], Append(el, i)) \o ChildFramesOfList(childNodes, i + 1, el)

childFrames(node, el) ==
    IF node.nodeType # "ELEMENT_NODE" THEN << >>
    ELSE (IF node.frame = << >> THEN << >>
          ELSE <<[url |-> node.frame[1].url, body |-> node.frame[1].body,
                  fails |-> node.frame[1].fails, lost |-> node.frame[1].lost,
                  base |-> Append(el, -1)]>>)
            \o ChildFramesOfList(node.childNodes, 1, el)
            \o (IF node.shadowRoot = << >> THEN << >>
                ELSE ChildFramesOfList(node.shadowRoot[1].childNodes, 1, Append(el, 0)))

\* Frame.childFrames()
FrameChildFrames(frame) ==
    IF frame.body = << >> THEN << >> ELSE childFrames(frame.body[1], frame.base)

RECURSIVE DescendantFrames(_)
DescendantFrames(frames) ==
    IF frames = << >> THEN << >>
    ELSE <<Head(frames)>> \o DescendantFrames(FrameChildFrames(Head(frames)))
            \o DescendantFrames(Tail(frames))

mainFrame(p) ==
    [url |-> p.url, body |-> p.body, fails |-> p.fails, lost |-> FALSE, base |-> << >>]

\* Page.frames(): the main frame, then every frame attached to the page
PageFrames(p) == DescendantFrames(<<mainFrame(p)>>)

\* frames is pageOrFrame.frames() for a page, pageOrFrame.childFrames() for a frame
RECURSIVE processFrames(_, _)
\* a variant of processFrames that leaves the frames inside a frame as they are
RECURSIVE processFramesOnce(_, _)
processFramesOnce(frames, node) ==
    LET processed ==
            [node EXCEPT
                !.children = [i \in 1..Len(node.children) |->
                                 processFramesOnce(frames, node.children[i])],
                !.shadowRoots = [i \in 1..Len(node.shadowRoots) |->
                                    processFramesOnce(frames, node.shadowRoots[i])]]
    IN  IF node.isFrame /\ node.frameUrl # << >> /\ node.frameUrl[1] # ""
            /\ node.frameUrl[1] # "about:blank"
        THEN LET found ==
                     SelectSeq(frames, LAMBDA f :
                         /\ ~f.lost
                         /\ f.url = node.frameUrl[1] \/ Includes(f.url, node.frameUrl[1]))
             IN  IF found = << >> \/ found[1].fails THEN processed
                 ELSE LET frameContent == extractDOMScript(found[1].body, found[1].base)
                      IN  IF frameContent = << >> THEN processed
                          ELSE [processed EXCEPT !.contentDocument = frameContent]
        ELSE processed

RECURSIVE ProcessFramesList(_, _)
ProcessFramesList(frames, nodes) ==
    IF nodes = << >> THEN << >>
    ELSE <<processFrames(frames, Head(nodes))>> \o ProcessFramesList(frames, Tail(nodes))

processFrames(frames, node) ==
    LET processed ==
            [node EXCEPT !.children = ProcessFramesList(frames, node.children),
                         !.shadowRoots = ProcessFramesList(frames, node.shadowRoots)]
    IN  IF node.isFrame /\ node.frameUrl # << >> /\ node.frameUrl[1] # ""
            /\ node.frameUrl[1] # "about:blank"
        THEN LET found ==
                     SelectSeq(frames, LAMBDA f :
                         /\ ~f.lost
                         /\ f.url = node.frameUrl[1] \/ Includes(f.url, node.frameUrl[1]))
             IN  IF found = << >> \/ found[1].fails THEN processed
                 ELSE LET frameContent == extractDOMScript(found[1].body, found[1].base)
                      IN  IF frameContent = << >> THEN processed
                          ELSE [processed EXCEPT !.contentDocument =
                                    <<processFrames(FrameChildFrames(found[1]), frameContent[1])>>]
        ELSE processed

\* the tree with the place of each node recorded in it: child i of the node at a is
\* at a \o <<i>>, its shadow root at a \o <<0>>, its content document at a \o <<-1>>
RECURSIVE Placed(_, _)
Placed(node, at) ==
    [node EXCEPT
        !.at = at,
        !.children = [i \in 1..Len(node.children) |-> Placed(node.children[i], Append(at, i))],
        !.shadowRoots =
            [i \in 1..Len(node.shadowRoots) |-> Placed(node.shadowRoots[i], Append(at, 0))],
        !.contentDocument =
            [i \in 1..Len(node.contentDocument) |->
                Placed(node.contentDocument[i], Append(at, -1))]]

extractRawDOM(p) ==
    LET extracted == extractDOMScript(p.body, << >>)
    IN  IF extracted = << >> THEN << >>
        ELSE <<Placed(processFrames(PageFrames(p), extracted[1]), << >>)>>

(***************************************************************************)
(* serialize.ts.  A CSS selector is the sequence of its steps, joined by   *)
(* " > "; the tree string is the sequence of its lines, and a line the     *)
(* record of the pieces it is formatted from.                              *)
(***************************************************************************)
\* value.replace(/([!"#$%&'()*+,./:;<=>?@[\\\]^`{|}~])/g, '\\$1') on the values the
\* model uses
escapeSelector(value) ==
    CASE value = "a.b" -> "a\\.b"
      [] OTHER -> value

Step(kind, tag, value, n) == [kind |-> kind, tag |-> tag, value |-> value, n |-> n]

\* tagName.startsWith('#')
StartsWithHash(tagName) == tagName \in {"#text", "#shadow-root"}

\* the loop of buildSelector over path, from position i with pathParts built so far
RECURSIVE PathParts(_, _, _)
PathParts(path, i, pathParts) ==
    IF i > Len(path) THEN pathParts
    ELSE LET current == path[i]
             currentTag == toLowerCase(current.tagName)
         IN  IF StartsWithHash(currentTag) \/ current.nodeType = "TEXT_NODE"
             THEN PathParts(path, i + 1, pathParts)
             ELSE IF Truthy(current, "id")
             THEN PathParts(path, i + 1,
                            <<Step("id", "", escapeSelector(current.attributes["id"]), 0)>>)
             ELSE IF i > 1
             THEN LET parent == path[i - 1]
                      sameTagSiblings ==
                          SelectSeq(parent.children,
                                    LAMBDA c : toLowerCase(c.tagName) = currentTag)
                      found == {k \in 1..Len(sameTagSiblings) :
                                    sameTagSiblings[k].nodeId = current.nodeId}
                      \* findIndex(...) + 1; findIndex is -1 when nothing is found
                      index == IF found = {} THEN 0
                               ELSE CHOOSE k \in found : \A j \in found : k <= j
                  IN  IF Len(sameTagSiblings) = 1
                      THEN PathParts(path, i + 1, Append(pathParts, Step("tag", currentTag, "", 0)))
                      ELSE PathParts(path, i + 1,
                                     Append(pathParts, Step("nth", currentTag, "", index)))
             ELSE PathParts(path, i + 1, Append(pathParts, Step("tag", currentTag, "", 0)))

\* << >> is the empty string
buildSelector(node, ancestors) ==
    LET tagName == toLowerCase(node.tagName)
    IN  IF StartsWithHash(tagName) \/ node.nodeType = "TEXT_NODE" THEN << >>
        ELSE IF Truthy(node, "id")
        THEN <<Step("id", "", escapeSelector(node.attributes["id"]), 0)>>
        ELSE IF Truthy(node, "data-testid")
        THEN <<Step("testid", "", escapeSelector(node.attributes["data-testid"]), 0)>>
        ELSE IF Truthy(node, "name") /\ tagName \in {"input", "select", "textarea"}
        THEN <<Step("name", tagName, escapeSelector(node.attributes["name"]), 0)>>
        ELSE PathParts(Append(ancestors, node), 1, << >>)

DEFAULT_INCLUDE_ATTRIBUTES ==
    <<"type", "id", "name", "role", "class",
      "placeholder", "value", "checked", "selected", "disabled", "required", "readonly",
      "aria-label", "aria-expanded", "aria-checked", "aria-disabled", "aria-placeholder",
      "aria-valuemin", "aria-valuemax", "aria-valuenow",
      "href", "target", "alt", "title", "src",
      "min", "max", "minlength", "maxlength", "pattern", "step", "inputmode",
      "autocomplete", "accept", "multiple",
      "data-testid", "data-date-format", "contenteditable", "tabindex">>

\* the replacements of escapeAttribute on the values the model uses
escapeAttribute(value) ==
    CASE value = "a<b" -> "a&lt;b"
      [] OTHER -> value

\* the loop of buildAttributeString from position i, with attrs and seenValues so far
RECURSIVE AttrLoop(_, _, _, _, _)
AttrLoop(node, includeAttributes, i, attrs, seenValues) ==
    IF i > Len(includeAttributes) THEN attrs
    ELSE LET attrName == includeAttributes[i]
         IN  IF ~HasAttr(node, attrName) \/ node.attributes[attrName] = ""
             THEN AttrLoop(node, includeAttributes, i + 1, attrs, seenValues)
             ELSE LET value == node.attributes[attrName]
                  IN  IF value \in seenValues
                      THEN AttrLoop(node, includeAttributes, i + 1, attrs, seenValues)
                      ELSE AttrLoop(node, includeAttributes, i + 1,
                                    Append(attrs,
                                           IF value = "" \/ value = attrName
                                           THEN [name |-> attrName, value |-> << >>]
                                           ELSE [name |-> attrName,
                                                 value |-> <<escapeAttribute(value)>>]),
                                    seenValues \cup {value})

\* the attributes joined by ' ': << >> is the empty string
buildAttributeString(node, includeAttributes) ==
    AttrLoop(node, includeAttributes, 1, << >>, {})

\* text is already trimmed with single spaces; the result is the first chars characters
\* of text, followed by '...' when ellipsis
truncateText(text, maxLength) ==
    IF TextLen(text) <= maxLength
    THEN [text |-> text, chars |-> TextLen(text), ellipsis |-> FALSE]
    ELSE [text |-> text, chars |-> Max(0, maxLength - 3), ellipsis |-> TRUE]

\* (a / b).toFixed(1), in tenths, for a >= 0 and b > 0
ToFixed1(a, b) == (20 * a + b) \div (2 * b)

\* << >> is the empty string
getScrollInfo(node) ==
    IF ~node.isScrollable \/ node.clientHeight = 0 THEN << >>
    ELSE IF node.scrollHeight <= node.clientHeight THEN << >>
    ELSE <<[pagesAbove |-> ToFixed1(node.scrollTop, node.clientHeight),
            pagesBelow |-> ToFixed1(node.scrollHeight - node.scrollTop - node.clientHeight,
                                    node.clientHeight)]>>

\* the prefix of a line: [index] or *[index], after |SCROLL| and before the scroll info
NoPrefix == [index |-> << >>, isNew |-> FALSE, scroll |-> FALSE, scrollInfo |-> << >>]

\* form is "shadow" (|SHADOW(mode)|), "iframe" (|IFRAME|), "self" (<tag attrs />),
\* "text" (<tag attrs>text</tag>), "open" (<tag attrs>) or "close" (</tag>)
Line(depth, form, prefix, tagName, attrs, text) ==
    [indent |-> depth, form |-> form, prefix |-> prefix, tagName |-> tagName,
     attrs |-> attrs, text |-> text]

NoText == [text |-> << >>, chars |-> 0, ellipsis |-> FALSE]

\* the result is the lines of the returned string (<< >> for '') and ctx after the call;
\* ctx.elements records, for each index, the live element of the node that took it
RECURSIVE serializeNode(_, _, _, _)
RECURSIVE SerializeList(_, _, _, _)
\* a variant of SerializeList that serializes every node of the list from the same ctx
RECURSIVE SerializeListApart(_, _, _, _)
SerializeListApart(nodes, depth, ctx, ancestors) ==
    IF nodes = << >> THEN [lines |-> << >>, ctx |-> ctx]
    ELSE LET first == serializeNode(Head(nodes), depth, ctx, ancestors)
             rest == SerializeListApart(Tail(nodes), depth, ctx, ancestors)
         IN  [lines |-> first.lines \o rest.lines,
              ctx |-> IF Tail(nodes) = << >> THEN first.ctx ELSE rest.ctx]

SerializeList(nodes, depth, ctx, ancestors) ==
    IF nodes = << >> THEN [lines |-> << >>, ctx |-> ctx]
    ELSE LET first == serializeNode(Head(nodes), depth, ctx, ancestors)
             rest == SerializeList(Tail(nodes), depth, first.ctx, ancestors)
         IN  [lines |-> first.lines \o rest.lines, ctx |-> rest.ctx]

serializeNode(node, depth, ctx, ancestors) ==
    LET tagName == toLowerCase(node.tagName)
    IN  IF node.nodeType = "TEXT_NODE" \/ tagName = "#text" THEN [lines |-> << >>, ctx |-> ctx]
        ELSE IF ~isVisible(node) THEN [lines |-> << >>, ctx |-> ctx]
        ELSE IF node.nodeType = "DOCUMENT_FRAGMENT_NODE"
        THEN LET shadowMode == IF node.shadowMode = << >> \/ node.shadowMode = <<"">>
                               THEN "open" ELSE node.shadowMode[1]
                 kids == SerializeList(node.children, depth + 1, ctx, Append(ancestors, node))
             IN  [lines |-> <<Line(depth, "shadow", NoPrefix, shadowMode, << >>, NoText)>>
                                \o kids.lines,
                  ctx |-> kids.ctx]
        ELSE IF node.isFrame /\ node.contentDocument # << >>
        THEN LET content == serializeNode(node.contentDocument[1], depth + 1, ctx, << >>)
             IN  [lines |-> <<Line(depth, "iframe", NoPrefix, "", << >>, NoText)>>
                                \o content.lines,
                  ctx |-> content.ctx]
        ELSE LET isNodeInteractive == isInteractive(node)
                 index == ctx.index + 1
                 indexed ==
                     IF isNodeInteractive
                     THEN [ctx EXCEPT
                             !.index = index,
                             !.selectorMap =
                                 [k \in DOMAIN ctx.selectorMap \cup {index} |->
                                     IF k = index THEN buildSelector(node, ancestors)
                                     ELSE ctx.selectorMap[k]],
                             !.elements =
                                 [k \in DOMAIN ctx.elements \cup {index} |->
                                     IF k = index THEN node.el ELSE ctx.elements[k]]]
                     ELSE ctx
                 isNew == IF ctx.previousState # << >>
                          THEN node.nodeId \notin ctx.previousState[1]
                          ELSE FALSE
                 prefix ==
                     [index |-> IF isNodeInteractive THEN <<index>> ELSE << >>,
                      isNew |-> isNodeInteractive /\ isNew,
                      scroll |-> node.isScrollable,
                      scrollInfo |-> IF node.isScrollable THEN getScrollInfo(node) ELSE << >>]
                 attrString == buildAttributeString(node, ctx.includeAttributes)
                 textContent == truncateText(node.textContent, ctx.maxTextLength)
                 noText == textContent.chars = 0 /\ ~textContent.ellipsis
                 hasVisibleChildren ==
                     \E i \in 1..Len(node.children) :
                        /\ node.children[i].nodeType # "TEXT_NODE"
                        /\ node.children[i].tagName # "#text"
                        /\ isVisible(node.children[i])
                 hasShadowRoots == Len(node.shadowRoots) > 0
             IN  IF ~hasVisibleChildren /\ ~hasShadowRoots /\ noText
                 THEN [lines |-> <<Line(depth, "self", prefix, tagName, attrString, NoText)>>,
                       ctx |-> indexed]
                 ELSE IF ~hasVisibleChildren /\ ~hasShadowRoots
                 THEN [lines |-> <<Line(depth, "text", prefix, tagName, attrString, textContent)>>,
                       ctx |-> indexed]
                 ELSE IF ~noText /\ ~hasVisibleChildren
                 THEN [lines |-> <<Line(depth, "text", prefix, tagName, attrString, textContent)>>,
                       ctx |-> indexed]
                 ELSE LET shadows == SerializeList(node.shadowRoots, depth + 1, indexed,
                                                   Append(ancestors, node))
                          kids == SerializeList(node.children, depth + 1, shadows.ctx,
                                                Append(ancestors, node))
                      IN  [lines |->
                              <<Line(depth, "open", prefix, tagName, attrString, NoText)>>
                                  \o shadows.lines \o kids.lines
                                  \o <<Line(depth, "close", NoPrefix, tagName, << >>, NoText)>>,
                           ctx |-> kids.ctx]

NoMap == [k \in {} |-> << >>]

\* a variant of serializeTree that does not hand options.previousState to the context
serializeTreeFresh(root, opts) ==
    LET ctx == [index |-> 0,
                selectorMap |-> NoMap,
                elements |-> NoMap,
                previousState |-> << >>,
                maxTextLength |-> IF opts.maxTextLength = << >> THEN 100
                                  ELSE opts.maxTextLength[1],
                includeAttributes |-> DEFAULT_INCLUDE_ATTRIBUTES]
        out == serializeNode(root, 0, ctx, << >>)
    IN  [tree |-> out.lines, selectorMap |-> out.ctx.selectorMap,
         elements |-> out.ctx.elements]

\* a variant of serializeTree whose index goes on from the last index of the previous
\* call
serializeTreeOn(root, opts) ==
    LET ctx == [index |-> IF previous = << >> THEN 0
                          ELSE Cardinality(DOMAIN previous[1].selectorMap),
                selectorMap |-> NoMap,
                elements |-> NoMap,
                previousState |-> opts.previousState,
                maxTextLength |-> IF opts.maxTextLength = << >> THEN 100
                                  ELSE opts.maxTextLength[1],
                includeAttributes |-> DEFAULT_INCLUDE_ATTRIBUTES]
        out == serializeNode(root, 0, ctx, << >>)
    IN  [tree |-> out.lines, selectorMap |-> out.ctx.selectorMap,
         elements |-> out.ctx.elements]

\* options.previousState and options.maxTextLength are << >> when not given
serializeTree(root, opts) ==
    LET ctx == [index |-> 0,
                selectorMap |-> NoMap,
                elements |-> NoMap,
                previousState |-> opts.previousState,
                maxTextLength |-> IF opts.maxTextLength = << >> THEN 100
                                  ELSE opts.maxTextLength[1],
                includeAttributes |-> DEFAULT_INCLUDE_ATTRIBUTES]
        out == serializeNode(root, 0, ctx, << >>)
    IN  [tree |-> out.lines, selectorMap |-> out.ctx.selectorMap,
         elements |-> out.ctx.elements]

(***************************************************************************)
(* compound.ts.  A string made of text and attribute values is the         *)
(* sequence of its words (an attribute value is one word, '' is << >>);    *)
(* an optional field is << >> when undefined and << v >> when it is v.     *)
(***************************************************************************)
CompoundComponent(name, role) ==
    [name |-> name, role |-> role, min |-> << >>, max |-> << >>, current |-> << >>,
     format |-> << >>, options |-> << >>]

\* node.attributes[a] as a string of words: undefined is << >>, v is << w >>
AttrOf(node, a) ==
    IF ~HasAttr(node, a) THEN << >>
    ELSE IF node.attributes[a] = "" THEN <<<< >>>> ELSE <<<<node.attributes[a]>>>>

\* a || b on optional strings: a when it is defined and not '', else b
OrElse(a, b) == IF a # << >> /\ a[1] # << >> THEN a ELSE b

getSelectedOptionText(selectNode, opts) ==
    LET selected == SelectSeq(opts, LAMBDA opt : HasAttr(opt, "selected"))
    IN  IF selected # << >>
        THEN OrElse(<<selected[1].textContent>>, AttrOf(selected[1], "value"))
        ELSE IF Len(opts) > 0
        THEN OrElse(<<opts[1].textContent>>, AttrOf(opts[1], "value"))
        ELSE << >>

\* opt.textContent || opt.attributes.value || ""
OptionLabel(opt) == OrElse(OrElse(<<opt.textContent>>, AttrOf(opt, "value")), <<<< >>>>)[1]

getSelectCompounds(node) ==
    LET opts == SelectSeq(node.children, LAMBDA c : toLowerCase(c.tagName) = "option")
        shown == SubSeq(opts, 1, Min(4, Len(opts)))
        labels == [i \in 1..Len(shown) |-> OptionLabel(shown[i])]
        remainingCount == Max(0, Len(opts) - 4)
        displayOptions ==
            IF remainingCount > 0
            THEN Append(labels, <<"...", "+", ToString(remainingCount), "more">>)
            ELSE labels
    IN  <<[CompoundComponent("Dropdown Toggle", "combobox") EXCEPT
              !.options = <<displayOptions>>,
              !.current = getSelectedOptionText(node, opts)]>>

getFileInputCompounds(node) ==
    <<CompoundComponent("Browse Files", "button"),
      [CompoundComponent(IF HasAttr(node, "multiple") THEN "Files Selected"
                         ELSE "File Selected", "textbox")
          EXCEPT !.format = IF Truthy(node, "accept")
                            THEN <<<<"Accepts:", node.attributes["accept"]>>>> ELSE << >>]>>

\* parseFloat on the min, max and value strings the model uses, in tenths; << >> is NaN
ParseNumber(str) ==
    CASE str = "0" -> <<0>>
      [] str = "1" -> <<10>>
      [] str = "50" -> <<500>>
      [] str = "99" -> <<990>>
      [] str = "100" -> <<1000>>
      [] OTHER -> << >>

\* String(x) for x in tenths (<< >> is NaN), as the pieces of the string
NumberString(x) ==
    IF x = << >> THEN <<"NaN">>
    ELSE IF x[1] % 10 = 0 THEN <<ToString(x[1] \div 10)>>
    ELSE <<ToString(x[1] \div 10), ".", ToString(x[1] % 10)>>

getRangeInputCompounds(node) ==
    LET min == ParseNumber(IF Truthy(node, "min") THEN node.attributes["min"] ELSE "0")
        max == ParseNumber(IF Truthy(node, "max") THEN node.attributes["max"] ELSE "100")
        \* parseFloat(String(x)) is x
        current == IF Truthy(node, "value") THEN ParseNumber(node.attributes["value"])
                   ELSE IF min = << >> \/ max = << >> THEN << >>
                   ELSE <<(min[1] + max[1]) \div 2>>
    IN  <<[CompoundComponent("Slider", "slider") EXCEPT
              !.min = <<min>>, !.max = <<max>>, !.current = <<NumberString(current)>>,
              !.format = IF Truthy(node, "step")
                         THEN <<<<"Step:", node.attributes["step"]>>>> ELSE << >>]>>

getNumberInputCompounds(node) ==
    <<CompoundComponent("Decrement", "button"),
      [CompoundComponent("Value", "spinbutton") EXCEPT
          !.current = AttrOf(node, "value"),
          !.min = IF HasAttr(node, "min") THEN <<ParseNumber(node.attributes["min"])>>
                  ELSE << >>,
          !.max = IF HasAttr(node, "max") THEN <<ParseNumber(node.attributes["max"])>>
                  ELSE << >>],
      CompoundComponent("Increment", "button")>>

getDateInputCompounds(node, format) ==
    <<[CompoundComponent("Date Picker", "textbox") EXCEPT
          !.format = <<<<format>>>>, !.current = AttrOf(node, "value")]>>

getColorInputCompounds(node) ==
    <<[CompoundComponent("Color Picker", "button") EXCEPT
          !.current = OrElse(AttrOf(node, "value"), <<<<"#000000">>>>),
          !.format = <<<<"Hex", "color">>>>]>>

MediaSlider(name) ==
    [CompoundComponent(name, "slider") EXCEPT !.min = <<<<0>>>>, !.max = <<<<1000>>>>]

getVideoCompounds(node) ==
    IF ~HasAttr(node, "controls") THEN << >>
    ELSE <<CompoundComponent("Play/Pause", "button"), MediaSlider("Progress"),
           MediaSlider("Volume"), CompoundComponent("Mute", "button"),
           CompoundComponent("Fullscreen", "button")>>

getAudioCompounds(node) ==
    IF ~HasAttr(node, "controls") THEN << >>
    ELSE <<CompoundComponent("Play/Pause", "button"), MediaSlider("Progress"),
           MediaSlider("Volume"), CompoundComponent("Mute", "button")>>

getDetailsCompounds(node) ==
    <<[CompoundComponent("Toggle", "button") EXCEPT
          !.current = IF HasAttr(node, "open") THEN <<<<"expanded">>>>
                      ELSE <<<<"collapsed">>>>]>>

getCompoundComponents(node) ==
    LET tagName == toLowerCase(node.tagName)
        inputType == IF HasAttr(node, "type") THEN toLowerCase(node.attributes["type"]) ELSE ""
    IN  IF tagName = "select" THEN getSelectCompounds(node)
        ELSE IF tagName = "input"
        THEN CASE inputType = "file" -> getFileInputCompounds(node)
               [] inputType = "range" -> getRangeInputCompounds(node)
               [] inputType = "number" -> getNumberInputCompounds(node)
               [] inputType = "date" -> getDateInputCompounds(node, "YYYY-MM-DD")
               [] inputType = "time" -> getDateInputCompounds(node, "HH:MM")
               [] inputType = "datetime-local" -> getDateInputCompounds(node, "YYYY-MM-DDTHH:MM")
               [] inputType = "color" -> getColorInputCompounds(node)
               [] OTHER -> << >>
        ELSE IF tagName = "video" THEN getVideoCompounds(node)
        ELSE IF tagName = "audio" THEN getAudioCompounds(node)
        ELSE IF tagName = "details" THEN getDetailsCompounds(node)
        ELSE << >>

\* the part of the annotation that formatCompoundAnnotation builds for one component
FormatComponent(comp) ==
    [head |-> <<comp.name, comp.role>>,
     range |-> IF comp.min # << >> /\ comp.max # << >> THEN <<comp.min[1], comp.max[1]>>
               ELSE << >>,
     current |-> comp.current,
     format |-> comp.format,
     options |-> IF comp.options # << >> /\ Len(comp.options[1]) > 0 THEN comp.options
                 ELSE << >>]

\* << >> is the empty string; otherwise the parts that are joined by " | " in braces
formatCompoundAnnotation(components) ==
    [i \in 1..Len(components) |-> FormatComponent(components[i])]

\* serve has not been called: no registry, no context, no request
ServerDown == registry = << >> /\ contexts = << >> /\ requests = << >>

(***************************************************************************)
(* index.ts: getLLMTree, one action for each step of the call               *)
(***************************************************************************)
EmptyResult == [tree |-> << >>, selectorMap |-> NoMap, elements |-> NoMap]

\* when page.evaluate throws, extractRawDOM and getLLMTree reject: pc is "thrown"
ExtractRawDOM ==
    /\ pc = "getLLMTree"
    /\ IF page.fails
       THEN rawTree' = << >> /\ result' = result /\ pc' = "thrown"
       ELSE /\ rawTree' = extractRawDOM(page)
            /\ IF rawTree' = << >>
               THEN result' = <<EmptyResult>> /\ pc' = "done"
               ELSE result' = result /\ pc' = "extracted"
    /\ UNCHANGED <<standalone, heap, registry, contexts, requests, inner, outer, pct, page, options, visibleTree, paintFiltered,
                   bboxFiltered, previous, compounds>>

FilterVisibleNodes ==
    /\ pc = "extracted"
    /\ visibleTree' = filterVisibleNodes(rawTree[1])
    /\ IF visibleTree' = << >>
       THEN result' = <<EmptyResult>> /\ pc' = "done"
       ELSE result' = result /\ pc' = "visible"
    /\ UNCHANGED <<standalone, heap, registry, contexts, requests, inner, outer, pct, page, options, rawTree, paintFiltered,
                   bboxFiltered, previous, compounds>>

FilterByPaintOrder ==
    /\ pc = "visible"
    /\ paintFiltered' = <<filterByPaintOrder(visibleTree[1])>>
    /\ pc' = "painted"
    /\ UNCHANGED <<standalone, heap, registry, contexts, requests, inner, outer, pct, page, options, rawTree, visibleTree,
                   bboxFiltered, result, previous, compounds>>

FilterByBboxPropagation ==
    /\ pc = "painted"
    /\ bboxFiltered' = <<filterByBboxPropagation(paintFiltered[1])>>
    /\ pc' = "propagated"
    /\ UNCHANGED <<standalone, heap, registry, contexts, requests, inner, outer, pct, page, options, rawTree, visibleTree,
                   paintFiltered, result, previous, compounds>>

SerializeTree ==
    /\ pc = "propagated"
    /\ result' = <<serializeTree(bboxFiltered[1], options)>>
    /\ pc' = "done"
    /\ UNCHANGED <<standalone, heap, registry, contexts, requests, inner, outer, pct, page, options, rawTree, visibleTree,
                   paintFiltered, bboxFiltered, previous, compounds>>

\* the caller calls getLLMTree a second time on the unchanged page
CallAgain ==
    /\ pc = "done"
    /\ previous = << >>
    /\ previous' = result
    /\ rawTree' = << >> /\ visibleTree' = << >> /\ paintFiltered' = << >>
    /\ bboxFiltered' = << >> /\ result' = << >>
    /\ pc' = "getLLMTree"
    /\ UNCHANGED <<standalone, heap, registry, contexts, requests, inner, outer, pct, page, options, compounds>>

(***************************************************************************)
(* Direct calls of the exported functions on an extracted tree             *)
(***************************************************************************)
CallFilterByBboxPropagation ==
    /\ pc = "extracted"
    /\ bboxFiltered' = <<filterByBboxPropagation(rawTree[1])>>
    /\ pc' = "done"
    /\ UNCHANGED <<standalone, heap, registry, contexts, requests, inner, outer, pct, page, options, rawTree, visibleTree,
                   paintFiltered, result, previous, compounds>>

CallSerializeTree ==
    /\ pc = "extracted"
    /\ result' = <<serializeTree(rawTree[1], options)>>
    /\ pc' = "done"
    /\ UNCHANGED <<standalone, heap, registry, contexts, requests, inner, outer, pct, page, options, rawTree, visibleTree,
                   paintFiltered, bboxFiltered, previous, compounds>>

\* getCompoundComponents on every node of the tree, in the order of flattenTree
CallGetCompoundComponents ==
    /\ pc = "extracted"
    /\ compounds' = LET nodes == flattenTree(rawTree[1])
                    IN  <<[i \in 1..Len(nodes) |-> getCompoundComponents(nodes[i])]>>
    /\ pc' = "done"
    /\ UNCHANGED <<standalone, heap, registry, contexts, requests, inner, outer, pct, page, options, rawTree, visibleTree,
                   paintFiltered, bboxFiltered, result, previous>>

(***************************************************************************)
(* Pages: every document of at most a given number of nodes under the      *)
(* body, built from a set of leaves and a set of containers                *)
(***************************************************************************)
Box(x, y, width, height) == [x |-> x, y |-> y, width |-> width, height |-> height]
Shown == ComputedStyles("block", "visible", "1", "auto", "transparent")
Body == DomElement("BODY", NoAttrs, Box(0, 0, 8, 8), Shown)
FrameUrl == "https://a.test/f"

RECURSIVE Size(_)
RECURSIVE SizeList(_)
SizeList(nodes) == IF nodes = << >> THEN 0 ELSE Size(Head(nodes)) + SizeList(Tail(nodes))

Size(node) ==
    IF node.nodeType = "TEXT_NODE" THEN 1
    ELSE 1 + SizeList(node.childNodes)
           + (IF node.shadowRoot = << >> THEN 0 ELSE SizeList(node.shadowRoot[1].childNodes))
           + (IF node.frame = << >> \/ node.frame[1].body = << >> THEN 0
              ELSE SizeList(node.frame[1].body[1].childNodes))

\* a container filled with the nodes f: as its children, as the children of its open
\* shadow root, or as the children of the body of the frame it owns
Fill(container, f) ==
    CASE container.fill = "children" -> [container.el EXCEPT !.childNodes = f]
      [] container.fill = "shadow" ->
            [container.el EXCEPT !.shadowRoot = <<[mode |-> "open", childNodes |-> f]>>]
      [] container.fill = "frame" ->
            [container.el EXCEPT
                !.src = FrameUrl,
                !.frame = <<[url |-> FrameUrl, fails |-> FALSE, lost |-> FALSE,
                             body |-> <<[Body EXCEPT !.childNodes = f]>>]>>]
      \* an iframe with any src and any frame behind it
      [] container.fill = "frame of" ->
            [container.el EXCEPT
                !.src = container.src,
                !.frame = <<[url |-> container.url, fails |-> container.fails,
                             lost |-> container.lost,
                             body |-> IF container.empty THEN << >>
                                      ELSE <<[Body EXCEPT !.childNodes = f]>>]>>]

RECURSIVE Forests(_, _, _)
RECURSIVE Trees(_, _, _)
Trees(n, leaves, containers) ==
    {l \in leaves : Size(l) <= n}
        \cup UNION {{Fill(c, f) : f \in Forests(n - 1, leaves, containers)} : c \in containers}

Forests(n, leaves, containers) ==
    IF n < 0 THEN {}
    ELSE {<< >>} \cup
         UNION {{<<t>> \o f : f \in Forests(n - Size(t), leaves, containers)} :
                    t \in Trees(n, leaves, containers)}

\* a document without a root, the documents with a shown body, and documents with a
\* hidden body
Pages(n, leaves, containers) ==
    {[url |-> "https://a.test/", fails |-> FALSE, body |-> << >>]} \cup
    {[url |-> "https://a.test/", fails |-> FALSE,
      body |-> <<[Body EXCEPT !.childNodes = f]>>] :
        f \in Forests(n, leaves, containers)} \cup
    {[url |-> "https://a.test/", fails |-> FALSE,
      body |-> <<[Body EXCEPT !.childNodes = f, !.computedStyles.display = "none"]>>] :
        f \in Forests(1, leaves, containers)}

DefaultOptions == [previousState |-> << >>, maxTextLength |-> << >>]

\* the state before a call on page p with options o
Start(pages, opts) ==
    /\ pc = "getLLMTree"
    /\ page \in pages
    /\ options \in opts
    /\ inner = << >> /\ outer = << >> /\ pct = << >>
    /\ rawTree = << >> /\ visibleTree = << >> /\ paintFiltered = << >>
    /\ bboxFiltered = << >> /\ result = << >> /\ previous = << >> /\ compounds = << >>
    /\ standalone = << >> /\ heap = << >> /\ ServerDown

(***************************************************************************)
(* filterVisibleNodes on the tree extracted from any page of hidden and    *)
(* shown elements                                                          *)
(***************************************************************************)
\* most nodes under the body
MaxVisibleNodes == 3

Styled(tagName, attributes, rect, display, visibility, opacity) ==
    DomElement(tagName, attributes, rect,
               ComputedStyles(display, visibility, opacity, "auto", "transparent"))

VisibleLeaves ==
    {DomElement("BUTTON", NoAttrs, Box(0, 0, 2, 1), Shown),
     DomText(<<"hi">>),
     Styled("SPAN", NoAttrs, Box(0, 0, 2, 1), "inline", "hidden", "1"),
     Styled("INPUT", "type" :> "file", Box(0, 0, 2, 1), "block", "visible", "0")}

VisibleContainers ==
    {[fill |-> "children", el |-> DomElement("DIV", NoAttrs, Box(0, 0, 4, 2), Shown)],
     [fill |-> "children", el |-> Styled("DIV", NoAttrs, Box(0, 0, 4, 2), "none", "visible", "1")],
     [fill |-> "shadow", el |-> DomElement("X-HOST", NoAttrs, Box(0, 0, 4, 2), Shown)],
     [fill |-> "frame", el |-> DomElement("IFRAME", NoAttrs, Box(0, 0, 4, 2), Shown)]}

InitVisible ==
    Start(Pages(MaxVisibleNodes, VisibleLeaves, VisibleContainers), {DefaultOptions})

NextVisible == ExtractRawDOM \/ FilterVisibleNodes

SpecVisible == InitVisible /\ [][NextVisible]_vars

\* p is the place q or the place of an ancestor of q
IsPrefix(p, q) == Len(p) <= Len(q) /\ SubSeq(q, 1, Len(p)) = p

\* the places of the nodes of a tree (<< >> for no tree), in document order
Places(tree) ==
    IF tree = << >> THEN << >>
    ELSE LET nodes == flattenTree(tree[1]) IN [i \in 1..Len(nodes) |-> nodes[i].at]

\* the node without its subtrees
Alone(node) ==
    [node EXCEPT !.children = << >>, !.shadowRoots = << >>, !.contentDocument = << >>]

\* C3: filterVisibleNodes keeps exactly the nodes that are visible and have only
\* visible ancestors, in their document order, each unchanged and under its own
\* parent; so a node that fails isVisible goes with its children, shadow roots and
\* nested document
VisibleSubtreesPruned ==
    (pc = "visible" \/ (pc = "done" /\ rawTree # << >>)) =>
        LET raw == flattenTree(rawTree[1])
            out == IF visibleTree = << >> THEN << >> ELSE flattenTree(visibleTree[1])
            \* the node at p is visible, and so is every ancestor of it
            ShownWithAncestors(p) ==
                \A i \in 1..Len(raw) : IsPrefix(raw[i].at, p) => isVisible(raw[i])
        IN  /\ Places(visibleTree) = SelectSeq(Places(rawTree), ShownWithAncestors)
            /\ \A i \in 1..Len(out) :
                  LET kept == out[i]
                      below == kept.children \o kept.shadowRoots \o kept.contentDocument
                  IN  /\ \E j \in 1..Len(raw) : Alone(raw[j]) = Alone(kept)
                      /\ \A k \in 1..Len(below) :
                            /\ Len(below[k].at) = Len(kept.at) + 1
                            /\ IsPrefix(kept.at, below[k].at)

\* a hidden element with a shown child is filtered out of a tree that keeps other nodes
PrunedHiddenParent ==
    /\ pc = "visible"
    /\ Len(flattenTree(visibleTree[1])) >= 2
    /\ \E i \in 1..Len(flattenTree(rawTree[1])) :
          LET n == flattenTree(rawTree[1])[i]
          IN  /\ ~isVisible(n)
              /\ Len(n.children) > 0
              /\ isVisible(n.children[1])

(***************************************************************************)
(* filterByBboxPropagation on the tree extracted from any page of buttons, *)
(* plain containers and children inside and across their boxes             *)
(***************************************************************************)
\* most nodes under the body
MaxBboxNodes == 3

BboxLeaves ==
    {DomElement("SPAN", NoAttrs, Box(1, 0, 2, 1), Shown),
     DomElement("SPAN", NoAttrs, Box(2, 0, 4, 2), Shown),
     DomElement("INPUT", "type" :> "checkbox", Box(1, 0, 1, 1), Shown),
     DomElement("SPAN", "onclick" :> "go()", Box(1, 0, 2, 1), Shown),
     DomElement("SPAN", "aria-label" :> "", Box(1, 0, 2, 1), Shown),
     DomElement("SPAN", "role" :> "tab", Box(1, 0, 2, 1), Shown),
     DomText(<<"hi">>)}

BboxContainers ==
    {[fill |-> "children", el |-> DomElement("BUTTON", NoAttrs, Box(0, 0, 4, 2), Shown)],
     [fill |-> "children", el |-> DomElement("DIV", NoAttrs, Box(0, 0, 4, 2), Shown)]}

InitBbox == Start(Pages(MaxBboxNodes, BboxLeaves, BboxContainers), {DefaultOptions})

NextBbox == ExtractRawDOM \/ CallFilterByBboxPropagation

SpecBbox == InitBbox /\ [][NextBbox]_vars

\* the keep exceptions: a form control, onclick, aria-label, an interactive role, or a
\* propagating element
KeepException(n) ==
    /\ n.nodeType = "ELEMENT_NODE"
    /\ \/ n.tagName \in {"input", "select", "textarea", "label"}
       \/ HasAttr(n, "onclick")
       \/ HasAttr(n, "aria-label")
       \/ HasAttr(n, "role") /\ toLowerCase(n.attributes["role"]) \in INTERACTIVE_ROLES
       \/ n.tagName \in {"button", "a"}
       \/ /\ n.tagName \in {"div", "span", "input"}
          /\ HasAttr(n, "role") /\ toLowerCase(n.attributes["role"]) \in {"button", "combobox"}

\* C4: of the children of a propagating element that filterByBboxPropagation keeps,
\* those whose box passes the 99% containment test (isFullyContained) against its box
\* are dropped unless they meet a keep exception, and kept when they meet one; a child
\* with no propagating ancestor is never dropped
BboxDropsAndKeeps ==
    (pc = "done" /\ bboxFiltered # << >>) =>
        LET raw == flattenTree(rawTree[1])
            out == Places(bboxFiltered)
            Kept(n) == \E i \in 1..Len(out) : out[i] = n.at
        IN  \A i, j \in 1..Len(raw) :
                LET parent == raw[i]
                    child == raw[j]
                IN  (/\ Len(child.at) = Len(parent.at) + 1
                     /\ IsPrefix(parent.at, child.at)
                     /\ child.at[Len(child.at)] >= 1
                     /\ Kept(parent)) =>
                        /\ (/\ isPropagatingElement(parent)
                            /\ isFullyContained(child.boundingRect, parent.boundingRect)) =>
                                (Kept(child) <=> KeepException(child))
                        /\ (\A k \in 1..Len(raw) :
                                IsPrefix(raw[k].at, parent.at) => ~isPropagatingElement(raw[k]))
                                => Kept(child)

\* a button has lost a contained plain child and kept a contained child that meets a
\* keep exception
DroppedSpanKeptControl ==
    /\ pc = "done" /\ bboxFiltered # << >>
    /\ LET raw == flattenTree(rawTree[1])
           out == Places(bboxFiltered)
           Kept(n) == \E i \in 1..Len(out) : out[i] = n.at
       IN  \E i, j, k \in 1..Len(raw) :
              /\ raw[i].tagName = "button" /\ Kept(raw[i])
              /\ Len(raw[j].at) = Len(raw[i].at) + 1 /\ IsPrefix(raw[i].at, raw[j].at)
              /\ Len(raw[k].at) = Len(raw[i].at) + 1 /\ IsPrefix(raw[i].at, raw[k].at)
              /\ isFullyContained(raw[j].boundingRect, raw[i].boundingRect)
              /\ isFullyContained(raw[k].boundingRect, raw[i].boundingRect)
              /\ ~KeepException(raw[j]) /\ ~Kept(raw[j])
              /\ KeepException(raw[k]) /\ Kept(raw[k])

(***************************************************************************)
(* serializeTree on the tree extracted from any page of interactive and    *)
(* plain elements, shadow roots and frames                                 *)
(***************************************************************************)
\* most nodes under the body
MaxSerializeNodes == 3

SerializeLeaves ==
    {DomElement("BUTTON", NoAttrs, Box(0, 0, 2, 1), Shown),
     Styled("BUTTON", NoAttrs, Box(0, 0, 2, 1), "none", "visible", "1"),
     DomText(<<"hi", "all">>)}

SerializeContainers ==
    {[fill |-> "children", el |-> DomElement("DIV", NoAttrs, Box(0, 0, 4, 2), Shown)],
     [fill |-> "children", el |-> DomElement("A", "href" :> "/x", Box(0, 0, 4, 2), Shown)],
     [fill |-> "shadow", el |-> DomElement("X-HOST", NoAttrs, Box(0, 0, 4, 2), Shown)],
     [fill |-> "frame", el |-> DomElement("IFRAME", NoAttrs, Box(0, 0, 4, 2), Shown)]}

SerializeOptions ==
    {DefaultOptions, [previousState |-> <<{1}>>, maxTextLength |-> <<5>>]}

InitSerialize ==
    Start(Pages(MaxSerializeNodes, SerializeLeaves, SerializeContainers), SerializeOptions)

NextSerialize == ExtractRawDOM \/ CallSerializeTree

SpecSerialize == InitSerialize /\ [][NextSerialize]_vars

\* the lines of a tree string that carry an index, in the order of the string
Indexed(tree) == SelectSeq(tree, LAMBDA line : line.prefix.index # << >>)

\* C1: the indices of one serializeTree call are 1, 2, ..., n in the order the nodes
\* are visited (the order of their lines), and the keys of the selector map are 1..n
IndicesCountUp ==
    (pc = "done" /\ result # << >>) =>
        LET indexed == Indexed(result[1].tree)
        IN  /\ \A i \in 1..Len(indexed) : indexed[i].prefix.index = <<i>>
            /\ DOMAIN result[1].selectorMap = 1..Len(indexed)

\* two nodes are indexed, the first before a frame or a shadow root and the second
\* inside it
IndexedAcrossBoundary ==
    /\ pc = "done" /\ result # << >>
    /\ Len(Indexed(result[1].tree)) >= 2
    /\ \E i \in 1..Len(result[1].tree) :
          /\ result[1].tree[i].form \in {"iframe", "shadow"}
          /\ \E h \in 1..(i - 1) : result[1].tree[h].prefix.index = <<1>>
          /\ \E j \in (i + 1)..Len(result[1].tree) :
                /\ result[1].tree[j].prefix.index = <<2>>
                /\ result[1].tree[j].indent > result[1].tree[i].indent

(***************************************************************************)
(* getCompoundComponents on the tree extracted from any page of one select *)
(***************************************************************************)
\* most options of the select
MaxOptions == 5

Option(attributes, text) ==
    [DomElement("OPTION", attributes, Box(0, 0, 2, 1), Shown) EXCEPT
        !.childNodes = IF text = << >> THEN << >> ELSE <<DomText(text)>>]

OptionKinds ==
    {Option(NoAttrs, <<"ab">>),
     Option("selected" :> "", <<"cd">>),
     Option("value" :> "v", << >>),
     Option(NoAttrs, << >>),
     Option("selected" :> "", << >>)}

RECURSIVE Seqs(_, _)
Seqs(n, S) ==
    IF n = 0 THEN {<< >>}
    ELSE Seqs(n - 1, S) \cup {Append(q, x) : q \in {r \in Seqs(n - 1, S) : Len(r) = n - 1}, x \in S}

SelectPages ==
    {[url |-> "https://a.test/", fails |-> FALSE,
      body |-> <<[Body EXCEPT !.childNodes =
                    <<[DomElement("SELECT", NoAttrs, Box(0, 0, 2, 1), Shown) EXCEPT
                          !.childNodes = opts]>>]>>] :
        opts \in Seqs(MaxOptions, OptionKinds)}

InitCompound == Start(SelectPages, {DefaultOptions})

NextCompound == ExtractRawDOM \/ CallGetCompoundComponents

SpecCompound == InitCompound /\ [][NextCompound]_vars

\* C9: a select has one component, "Dropdown Toggle" with role combobox; its options
\* are the labels of the first 4 options, then "... +N more" when there are N more;
\* its current value is the label of the first option with the selected attribute,
\* else the label of the first option, else undefined
SelectHasDropdownToggle ==
    pc = "done" =>
        \A i \in 1..Len(flattenTree(rawTree[1])) :
            LET node == flattenTree(rawTree[1])[i]
                opts == SelectSeq(node.children, LAMBDA c : c.tagName = "option")
                selected == SelectSeq(opts, LAMBDA c : HasAttr(c, "selected"))
                count == Len(opts)
                labels == [k \in 1..Min(4, count) |-> OptionLabel(opts[k])]
                comps == compounds[1][i]
            IN  node.tagName = "select" =>
                    /\ Len(comps) = 1
                    /\ comps[1].name = "Dropdown Toggle"
                    /\ comps[1].role = "combobox"
                    /\ comps[1].options =
                          <<IF count > 4
                            THEN Append(labels, <<"...", "+", ToString(count - 4), "more">>)
                            ELSE labels>>
                    /\ comps[1].current =
                          IF selected # << >> THEN <<OptionLabel(selected[1])>>
                          ELSE IF count > 0 THEN <<OptionLabel(opts[1])>>
                          ELSE << >>

(***************************************************************************)
(* The browser resolving a selector in the page: document.querySelectorAll *)
(* over the elements of the main document, each named by its path          *)
(***************************************************************************)
\* the value a CSS parser reads from an escaped identifier or string
cssUnescape(value) ==
    CASE value = "a\\.b" -> "a.b"
      [] OTHER -> value

RECURSIVE ElementAt(_, _)
ElementAt(node, path) ==
    IF path = << >> THEN node ELSE ElementAt(node.childNodes[Head(path)], Tail(path))

RECURSIVE LightPaths(_, _)
LightPaths(node, at) ==
    {at} \cup UNION {LightPaths(node.childNodes[i], Append(at, i)) :
                        i \in {k \in 1..Len(node.childNodes) :
                                  node.childNodes[k].nodeType = "ELEMENT_NODE"}}

\* the element at path is matched by one compound selector
StepMatches(body, path, step) ==
    LET e == ElementAt(body, path)
        tagName == toLowerCase(e.tagName)
        \* the element children of the parent with the same tag, up to this one
        before == IF path = << >> THEN {}
                  ELSE LET parent == ElementAt(body, SubSeq(path, 1, Len(path) - 1))
                       IN  {k \in 1..path[Len(path)] :
                              /\ parent.childNodes[k].nodeType = "ELEMENT_NODE"
                              /\ toLowerCase(parent.childNodes[k].tagName) = tagName}
    IN  CASE step.kind = "id" -> AttrIs(e, "id", cssUnescape(step.value))
          [] step.kind = "testid" -> AttrIs(e, "data-testid", cssUnescape(step.value))
          [] step.kind = "name" ->
                tagName = step.tag /\ AttrIs(e, "name", cssUnescape(step.value))
          [] step.kind = "tag" -> tagName = step.tag
          [] step.kind = "nth" ->
                tagName = step.tag /\ (IF path = << >> THEN 1 ELSE Cardinality(before)) = step.n

\* the element at path is matched by the steps, joined by the child combinator
RECURSIVE Matches(_, _, _)
Matches(body, path, steps) ==
    /\ StepMatches(body, path, steps[Len(steps)])
    /\ \/ Len(steps) = 1
       \/ /\ path # << >>
          /\ Matches(body, SubSeq(path, 1, Len(path) - 1), SubSeq(steps, 1, Len(steps) - 1))

querySelectorAll(p, steps) ==
    IF p.body = << >> \/ steps = << >> THEN {}
    ELSE {path \in LightPaths(p.body[1], << >>) : Matches(p.body[1], path, steps)}

(***************************************************************************)
(* getLLMTree called twice on any page of buttons, overlays, form controls *)
(* and containers                                                          *)
(***************************************************************************)
\* most nodes under the body
MaxNodes == 2

Painted(tagName, attributes, rect, backgroundColor) ==
    DomElement(tagName, attributes, rect,
               ComputedStyles("block", "visible", "1", "auto", backgroundColor))

Leaves ==
    {DomElement("BUTTON", NoAttrs, Box(0, 0, 2, 1), Shown),
     Styled("BUTTON", NoAttrs, Box(0, 0, 2, 1), "none", "visible", "1"),
     Painted("DIV", NoAttrs, Box(0, 0, 2, 1), "rgb(0, 0, 0)"),
     Painted("DIV", NoAttrs, Box(0, 0, 2, 1), "transparent"),
     [DomElement("SELECT", NoAttrs, Box(0, 2, 2, 1), Shown) EXCEPT
        !.childNodes = <<Option("value" :> "v", << >>)>>],
     DomElement("INPUT", "name" :> "q", Box(0, 4, 2, 1), Shown),
     DomElement("DIV", ("id" :> "a.b") @@ ("onclick" :> "go()"), Box(0, 4, 2, 1), Shown),
     DomText(<<"hi">>)}

Containers ==
    {[fill |-> "children", el |-> DomElement("DIV", NoAttrs, Box(0, 0, 4, 2), Shown)],
     [fill |-> "children", el |-> DomElement("BUTTON", NoAttrs, Box(0, 0, 4, 2), Shown)],
     [fill |-> "shadow", el |-> DomElement("X-HOST", NoAttrs, Box(0, 0, 4, 2), Shown)],
     [fill |-> "frame", el |-> DomElement("IFRAME", NoAttrs, Box(0, 0, 4, 2), Shown)]}

Init == Start(Pages(MaxNodes, Leaves, Containers), {DefaultOptions})

Next ==
    \/ ExtractRawDOM
    \/ FilterVisibleNodes
    \/ FilterByPaintOrder
    \/ FilterByBboxPropagation
    \/ SerializeTree
    \/ CallAgain

Spec == Init /\ [][Next]_vars

\* the nodes of the extracted tree that belong to the main document
MainNodes ==
    SelectSeq(flattenTree(rawTree[1]), LAMBDA n : \A i \in 1..Len(n.at) : n.at[i] # -1)

\* the live element el has an index in the selector map of the result
IsIndexed(el) == \E k \in DOMAIN result[1].elements : result[1].elements[k] = el

\* the box of n is inside the box of o
Covers(o, n) ==
    /\ o.boundingRect.x <= n.boundingRect.x
    /\ o.boundingRect.y <= n.boundingRect.y
    /\ n.boundingRect.x + n.boundingRect.width <= o.boundingRect.x + o.boundingRect.width
    /\ n.boundingRect.y + n.boundingRect.height <= o.boundingRect.y + o.boundingRect.height

\* C2: after getLLMTree, a button fully covered by a later-painted node with an opaque
\* background has no index in the selector map; a button of the body that only nodes
\* with a transparent background cover is indexed
OccludedButtonNotIndexed ==
    (pc = "done" /\ rawTree # << >> /\ visibleTree # << >>) =>
        \A i \in 1..Len(MainNodes) :
            LET button == MainNodes[i]
                over == {j \in 1..Len(MainNodes) :
                            /\ MainNodes[j].nodeType = "ELEMENT_NODE"
                            /\ MainNodes[j].paintOrder > button.paintOrder
                            /\ isVisible(MainNodes[j])
                            /\ Len(MainNodes[j].at) = 1
                            /\ Covers(MainNodes[j], button)}
            IN  (button.tagName = "button" /\ isVisible(button) /\ Len(button.at) = 1) =>
                    /\ (\E j \in over : MainNodes[j].computedStyles.backgroundColor = "rgb(0, 0, 0)")
                            => ~IsIndexed(button.el)
                    /\ (\A j \in over : MainNodes[j].computedStyles.backgroundColor = "transparent")
                            => IsIndexed(button.el)

\* no two elements of the main document share an id or a data-testid
UniqueIds ==
    page.body # << >> =>
        \A p, q \in LightPaths(page.body[1], << >>) :
            LET e == ElementAt(page.body[1], p)
                f == ElementAt(page.body[1], q)
            IN  p # q => \A a \in {"id", "data-testid"} :
                            ~(HasAttr(e, a) /\ HasAttr(f, a) /\ e.attributes[a] = f.attributes[a])

\* C5: every selector of the selector map that getLLMTree returns resolves, in the
\* live document, to exactly the element that produced its index, when ids and
\* data-testids are unique (stated for the elements of the main document outside
\* shadow roots, which are the ones the document resolves selectors to)
SelectorsResolve ==
    (pc = "done" /\ UniqueIds) =>
        \A k \in DOMAIN result[1].selectorMap :
            LET el == result[1].elements[k][1]
            IN  (\A i \in 1..Len(el) : el[i] >= 1) =>
                    querySelectorAll(page, result[1].selectorMap[k]) = {el}

CompoundsAnnotated ==
    (pc = "done" /\ bboxFiltered # << >>) =>
        \A i \in 1..Len(flattenTree(bboxFiltered[1])) :
            LET node == flattenTree(bboxFiltered[1])[i]
                components == getCompoundComponents(node)
                lines == Indexed(result[1].tree)
            IN  \A k \in DOMAIN result[1].elements :
                    (result[1].elements[k] = node.el /\ components # << >>) =>
                        /\ "annotation" \in DOMAIN lines[k]
                        /\ lines[k].annotation = formatCompoundAnnotation(components)

(***************************************************************************)
(* Calls of getContainmentPercentage on any two rectangles                 *)
(***************************************************************************)
\* largest x, y, width and height of the rectangles tried
MaxCoord == 6
MaxCoordY == 1

Rects ==
    {[x |-> a, y |-> b, width |-> w, height |-> h] :
        a \in Numbers(MaxCoord), b \in Numbers(MaxCoordY),
        w \in Numbers(MaxCoord), h \in Numbers(MaxCoordY)}

InitRect ==
    /\ pc = "call"
    /\ inner \in Rects
    /\ outer \in Rects
    /\ pct = << >>
    /\ page = << >> /\ options = << >> /\ rawTree = << >> /\ visibleTree = << >>
    /\ paintFiltered = << >> /\ bboxFiltered = << >> /\ result = << >>
    /\ previous = << >> /\ compounds = << >>
    /\ standalone = << >> /\ heap = << >> /\ ServerDown

CallContainment ==
    /\ pc = "call"
    /\ pct' = <<getContainmentPercentage(inner, outer)>>
    /\ pc' = "done"
    /\ UNCHANGED <<standalone, heap, registry, contexts, requests, inner, outer, page, options, rawTree, visibleTree, paintFiltered,
                   bboxFiltered, result, previous, compounds>>

NextRect == CallContainment

SpecRect == InitRect /\ [][NextRect]_vars

\* C7: the returned containment lies in [0, 1]; it is 0 when the rectangles do not
\* intersect and 0 when inner has zero area
ContainmentInUnitRange ==
    pc = "done" =>
        /\ pct[1].n >= 0 /\ pct[1].n <= pct[1].d
        /\ (\/ inner.x + inner.width <= outer.x
            \/ outer.x + outer.width <= inner.x
            \/ inner.y + inner.height <= outer.y
            \/ outer.y + outer.height <= inner.y) => pct[1] = Zero
        /\ (inner.width * inner.height = 0) => pct[1] = Zero

\* C8: the containment of a rectangle in itself is 1
SelfContainmentIsOne ==
    (pc = "done" /\ inner = outer) => pct[1] = [n |-> 1, d |-> 1]

(***************************************************************************)
(* serializeTree called with options.includeAttributes on the tree         *)
(* extracted from any page of elements with attributes                     *)
(***************************************************************************)
\* most nodes under the body
MaxAttributeNodes == 2

AttributeLeaves ==
    {DomElement("BUTTON", ("title" :> "t") @@ ("class" :> "c"), Box(0, 0, 2, 1), Shown),
     DomElement("INPUT", ("type" :> "text") @@ ("data-x" :> "d"), Box(0, 2, 2, 1), Shown),
     DomText(<<"hi">>)}

AttributeContainers ==
    {[fill |-> "children", el |-> DomElement("A", "href" :> "/x", Box(0, 0, 4, 2), Shown)]}

\* options.includeAttributes is << >> when not given, and << list >> when it is list
AttributeOptions ==
    {[previousState |-> << >>, maxTextLength |-> << >>, includeAttributes |-> given] :
        given \in {<< >>, <<<<"title">>>>, <<<<"class", "data-x">>>>}}

InitAttributes ==
    Start(Pages(MaxAttributeNodes, AttributeLeaves, AttributeContainers), AttributeOptions)

NextAttributes == ExtractRawDOM \/ CallSerializeTree

SpecAttributes == InitAttributes /\ [][NextAttributes]_vars

\* C11: when options.includeAttributes is given, every attribute rendered on a line of
\* the tree is one of the given list, so an attribute of the default list that is not
\* in the given list is not rendered
IncludeAttributesOverride ==
    (pc = "done" /\ result # << >> /\ options.includeAttributes # << >>) =>
        \A i \in 1..Len(result[1].tree) :
            \A k \in 1..Len(result[1].tree[i].attrs) :
                \E j \in 1..Len(options.includeAttributes[1]) :
                    result[1].tree[i].attrs[k].name = options.includeAttributes[1][j]

(***************************************************************************)
(* The prefix of the lines of serializeTree, under SpecSerialize           *)
(***************************************************************************)
\* the line of the tree string that carries index k
LineOf(tree, k) == CHOOSE line \in {tree[i] : i \in 1..Len(tree)} : line.prefix.index = <<k>>

\* C12: the line of an indexed node is prefixed *[index] exactly when previousState is
\* given and the nodeId of the node is not in it, and [index] otherwise; an indexed
\* node is interactive, and a node that is not interactive has no index and no star
NewMarkedWhenAbsent ==
    (pc = "done" /\ result # << >> /\ rawTree # << >>) =>
        LET raw == flattenTree(rawTree[1])
            tree == result[1].tree
        IN  /\ \A k \in DOMAIN result[1].elements :
                  \A i \in 1..Len(raw) :
                      raw[i].el = result[1].elements[k] =>
                          /\ isInteractive(raw[i])
                          /\ LineOf(tree, k).prefix.isNew <=>
                                (/\ options.previousState # << >>
                                 /\ raw[i].nodeId \notin options.previousState[1])
            /\ \A i \in 1..Len(tree) : tree[i].prefix.index = << >> => ~tree[i].prefix.isNew
            /\ \A i \in 1..Len(raw) :
                  ~isInteractive(raw[i]) =>
                      \A k \in DOMAIN result[1].elements : result[1].elements[k] # raw[i].el

\* with previousState given, one indexed line carries the star and another does not
NewAndSeenIndexed ==
    /\ pc = "done" /\ result # << >>
    /\ options.previousState # << >>
    /\ \E i, j \in 1..Len(result[1].tree) :
          /\ result[1].tree[i].prefix.index # << >> /\ result[1].tree[i].prefix.isNew
          /\ result[1].tree[j].prefix.index # << >> /\ ~result[1].tree[j].prefix.isNew

(***************************************************************************)
(* getLLMTree on pages whose root cannot be obtained: no body, a body that *)
(* is not visible, or a page in which evaluating throws                    *)
(***************************************************************************)
\* most nodes under the body
MaxUnreachableNodes == 2

UnreachableLeaves ==
    {DomElement("BUTTON", NoAttrs, Box(0, 0, 2, 1), Shown),
     Styled("BUTTON", NoAttrs, Box(0, 0, 2, 1), "none", "visible", "1"),
     DomText(<<"hi">>)}

UnreachableContainers ==
    {[fill |-> "children", el |-> DomElement("DIV", NoAttrs, Box(0, 0, 4, 2), Shown)],
     [fill |-> "frame", el |-> DomElement("IFRAME", NoAttrs, Box(0, 0, 4, 2), Shown)]}

\* every page, once as it is and once while it navigates
UnreachablePages ==
    {[p EXCEPT !.fails = f] :
        p \in Pages(MaxUnreachableNodes, UnreachableLeaves, UnreachableContainers),
        f \in BOOLEAN}

InitUnreachable == Start(UnreachablePages, {DefaultOptions})

NextUnreachable ==
    \/ ExtractRawDOM
    \/ FilterVisibleNodes
    \/ FilterByPaintOrder
    \/ FilterByBboxPropagation
    \/ SerializeTree

SpecUnreachable == InitUnreachable /\ [][NextUnreachable]_vars

\* C13: when the snapshot call throws or yields no root, or the root is not visible,
\* getLLMTree returns the empty tree string and an empty selector map
EmptyWhenNoRoot ==
    (/\ pc \in {"done", "thrown"}
     /\ \/ page.fails
        \/ page.body = << >>
        \/ rawTree # << >> /\ ~isVisible(rawTree[1])) =>
            /\ pc = "done"
            /\ result = <<EmptyResult>>

(***************************************************************************)
(* extractRawDOM on pages whose iframes have frames that extract, throw,   *)
(* are lost, have no root, or have moved to another url                    *)
(***************************************************************************)
\* most nodes under the body
MaxFrameNodes == 3

FrameLeaves ==
    {DomElement("BUTTON", NoAttrs, Box(0, 0, 2, 1), Shown),
     DomText(<<"hi">>)}

FrameOf(src, url, fails, lost, empty) ==
    [fill |-> "frame of", el |-> DomElement("IFRAME", NoAttrs, Box(0, 0, 4, 2), Shown),
     src |-> src, url |-> url, fails |-> fails, lost |-> lost, empty |-> empty]

\* a frame that extracts, a cross-origin frame whose evaluate throws, a detached frame
\* whose url() throws, a frame without root, and a frame that has left the url of src
FrameContainers ==
    {FrameOf(FrameUrl, FrameUrl, FALSE, FALSE, FALSE),
     FrameOf("https://x.test/t", "https://x.test/t", TRUE, FALSE, FALSE),
     FrameOf("https://a.test/l", "https://a.test/l", FALSE, TRUE, FALSE),
     FrameOf("https://a.test/e", "https://a.test/e", FALSE, FALSE, TRUE),
     FrameOf("https://a.test/m", "https://b.test/", FALSE, FALSE, FALSE)}

InitFrames == Start(Pages(MaxFrameNodes, FrameLeaves, FrameContainers), {DefaultOptions})

NextFrames == ExtractRawDOM

SpecFrames == InitFrames /\ [][NextFrames]_vars

\* the live node at a path of the document: i is child i, 0 the shadow root, -1 the body
\* of the frame of an iframe
RECURSIVE LiveAt(_, _)
LiveAt(node, path) ==
    IF path = << >> THEN node
    ELSE LiveAt(CASE Head(path) = 0 -> node.shadowRoot[1]
                  [] Head(path) = -1 -> node.frame[1].body[1]
                  [] OTHER -> node.childNodes[Head(path)],
                Tail(path))

\* the tree without the content documents of its frames
RECURSIVE Base(_)
Base(node) ==
    [node EXCEPT
        !.children = [i \in 1..Len(node.children) |-> Base(node.children[i])],
        !.shadowRoots = [i \in 1..Len(node.shadowRoots) |-> Base(node.shadowRoots[i])],
        !.contentDocument = << >>]

\* C14: extractRawDOM returns the base tree whatever happens to the frames; in it and
\* in every content document, an iframe has a content document exactly when its frame
\* is found at the url of src, evaluates without throwing and has a root, and that
\* content document is the extraction of a frame at that url
FrameFailuresContained ==
    (pc # "getLLMTree" /\ page.body # << >>) =>
        /\ pc = "extracted"
        /\ Base(rawTree[1]) = Placed(extractDOMScript(page.body, << >>)[1], << >>)
        /\ LET raw == flattenTree(rawTree[1])
           IN  \A i \in 1..Len(raw) :
                  raw[i].isFrame =>
                      LET frame == LiveAt(page.body[1], raw[i].el[1]).frame[1]
                          succeeds == /\ ~frame.lost /\ ~frame.fails /\ frame.body # << >>
                                      /\ frame.url = raw[i].frameUrl[1]
                      IN  /\ raw[i].contentDocument # << >> <=> succeeds
                          /\ succeeds =>
                                \E m \in 1..Len(PageFrames(page)) :
                                    LET other == PageFrames(page)[m]
                                    IN  /\ other.url = raw[i].frameUrl[1]
                                        /\ Base(raw[i].contentDocument[1]) =
                                              Placed(extractDOMScript(other.body,
                                                                      other.base)[1],
                                                     Append(raw[i].at, -1))

\* a frame that throws comes before a frame that extracts and holds an iframe whose
\* frame extracts too
NestedAfterFailure ==
    /\ pc = "extracted"
    /\ LET raw == flattenTree(rawTree[1])
       IN  \E i, j, k \in 1..Len(raw) :
              /\ i < j /\ j < k
              /\ raw[i].isFrame /\ raw[i].frameUrl = <<"https://x.test/t">>
              /\ raw[i].contentDocument = << >>
              /\ raw[j].isFrame /\ raw[j].contentDocument # << >>
              /\ raw[k].isFrame /\ raw[k].contentDocument # << >>
              /\ IsPrefix(raw[j].at, raw[k].at)

\* C15: in the tree that one extractRawDOM call returns, content documents of frames
\* included, no two nodes have the same nodeId
NodeIdsUnique ==
    pc = "extracted" =>
        LET raw == flattenTree(rawTree[1])
        IN  \A i, j \in 1..Len(raw) : i # j => raw[i].nodeId # raw[j].nodeId

(***************************************************************************)
(* Calls of the exported predicates on one node: the node is rawTree[1],   *)
(* the returned value result[1]                                            *)
(***************************************************************************)
\* the state before a call on one of the nodes
StartOn(nodes) ==
    /\ pc = "call"
    /\ rawTree \in {<<n>> : n \in nodes}
    /\ page = << >> /\ options = << >>
    /\ inner = << >> /\ outer = << >> /\ pct = << >>
    /\ visibleTree = << >> /\ paintFiltered = << >>
    /\ bboxFiltered = << >> /\ result = << >> /\ previous = << >> /\ compounds = << >>
    /\ standalone = << >> /\ heap = << >> /\ ServerDown

CallIsVisible ==
    /\ pc = "call"
    /\ result' = <<isVisible(rawTree[1])>>
    /\ pc' = "done"
    /\ UNCHANGED <<standalone, heap, registry, contexts, requests, inner, outer, pct, page, options, rawTree, visibleTree,
                   paintFiltered, bboxFiltered, previous, compounds>>

\* nodes of every type, with and without each hiding style, file and hidden inputs,
\* with a box and without one
VisibilityNodes ==
    {RawDOMNode(nodeType, tagName, attributes, << >>, rect,
                ComputedStyles(display, visibility, opacity, "auto", "transparent")) :
        nodeType \in {"ELEMENT_NODE", "TEXT_NODE", "DOCUMENT_FRAGMENT_NODE"},
        tagName \in {"input", "div"},
        attributes \in {NoAttrs, "type" :> "file", "type" :> "FILE", "type" :> "hidden"},
        rect \in {NoRect, Box(0, 0, 2, 1)},
        display \in {"block", "none"},
        visibility \in {"visible", "hidden"},
        opacity \in {"1", "0.5", "0", "-0.5", ""}}

InitIsVisible == StartOn(VisibilityNodes)

NextIsVisible == CallIsVisible

SpecIsVisible == InitIsVisible /\ [][NextIsVisible]_vars

\* C16: isVisible is false exactly for an element with display none, or visibility
\* hidden, or opacity <= 0 that is not an input of type file; it is true for every
\* other node
HiddenByStyleOnly ==
    pc = "done" =>
        LET node == rawTree[1]
            opacity == parseFloat(node.computedStyles.opacity)
            fileInput == /\ node.tagName = "input"
                         /\ HasAttr(node, "type")
                         /\ toLowerCase(node.attributes["type"]) = "file"
            hiding == \/ node.computedStyles.display = "none"
                      \/ node.computedStyles.visibility = "hidden"
                      \/ opacity # << >> /\ opacity[1] <= 0 /\ ~fileInput
        IN  result[1] = ~(node.nodeType = "ELEMENT_NODE" /\ hiding)

(***************************************************************************)
(* interactive.ts: scrollable containers                                   *)
(***************************************************************************)
RECURSIVE countInteractiveDescendants(_)
RECURSIVE CountInteractiveList(_, _)
\* the loops of countInteractiveDescendants; own is whether the nodes themselves count
CountInteractiveList(nodes, own) ==
    IF nodes = << >> THEN 0
    ELSE (IF own /\ isInteractive(Head(nodes)) THEN 1 ELSE 0)
            + countInteractiveDescendants(Head(nodes))
            + CountInteractiveList(Tail(nodes), own)

countInteractiveDescendants(node) ==
    CountInteractiveList(node.children, TRUE) + CountInteractiveList(node.shadowRoots, FALSE)

shouldMakeScrollableInteractive(node) ==
    IF ~node.isScrollable THEN FALSE
    ELSE countInteractiveDescendants(node) = 0

(***************************************************************************)
(* serializeTree on the tree extracted from any page of scrollable and     *)
(* plain containers                                                        *)
(***************************************************************************)
\* most nodes under the body
MaxScrollNodes == 3

Scrolling(el) == [el EXCEPT !.overflowY = "auto", !.scrollHeight = 10, !.clientHeight = 5]

ScrollLeaves ==
    {DomElement("BUTTON", NoAttrs, Box(0, 0, 2, 1), Shown),
     DomText(<<"hi", "all">>)}

ScrollContainers ==
    {[fill |-> "children", el |-> Scrolling(DomElement("DIV", NoAttrs, Box(0, 0, 4, 2), Shown))],
     [fill |-> "children", el |-> DomElement("DIV", NoAttrs, Box(0, 0, 4, 2), Shown)],
     [fill |-> "children", el |-> Scrolling(DomElement("A", "href" :> "/x", Box(0, 0, 4, 2), Shown))]}

InitScroll == Start(Pages(MaxScrollNodes, ScrollLeaves, ScrollContainers), {DefaultOptions})

NextScroll == ExtractRawDOM \/ CallSerializeTree

SpecScroll == InitScroll /\ [][NextScroll]_vars

\* C17: a scrollable node without interactive descendants has an index (and with it a
\* selector) in the result of serializeTree, whatever else it is; a scrollable node
\* with an interactive descendant has an index only when it is interactive itself
ScrollableAloneIndexed ==
    (pc = "done" /\ result # << >> /\ rawTree # << >>) =>
        LET raw == flattenTree(rawTree[1])
        IN  \A i \in 1..Len(raw) :
                raw[i].isScrollable =>
                    IF countInteractiveDescendants(raw[i]) = 0
                    THEN IsIndexed(raw[i].el)
                    ELSE IsIndexed(raw[i].el) <=> isInteractive(raw[i])

(***************************************************************************)
(* Calls of isInteractive on one node                                      *)
(***************************************************************************)
CallIsInteractive ==
    /\ pc = "call"
    /\ result' = <<isInteractive(rawTree[1])>>
    /\ pc' = "done"
    /\ UNCHANGED <<standalone, heap, registry, contexts, requests, inner, outer, pct, page, options, rawTree, visibleTree,
                   paintFiltered, bboxFiltered, previous, compounds>>

InteractiveAttributes ==
    {NoAttrs, "type" :> "text", "type" :> "hidden", "type" :> "Hidden",
     "role" :> "Button", "role" :> "none", "role" :> "",
     "onclick" :> "go()", "onkeyup" :> "go()", "ontouchend" :> "go()",
     "tabindex" :> "0", "tabindex" :> "-1", "tabindex" :> "x",
     "contenteditable" :> "true", "contenteditable" :> "", "contenteditable" :> "false",
     ("type" :> "hidden") @@ ("onclick" :> "go()"),
     ("class" :> "search-icon")}

\* nodes of every type and of interactive and plain tags, with one attribute of each
\* rule, with and without cursor pointer, frames and others, small and large
InteractiveNodes ==
    {[RawDOMNode(nodeType, tagName, attributes, << >>, rect,
                 ComputedStyles("block", "visible", "1", cursor, "transparent"))
        EXCEPT !.isFrame = tagName = "iframe"] :
        nodeType \in {"ELEMENT_NODE", "TEXT_NODE", "DOCUMENT_FRAGMENT_NODE"},
        tagName \in {"button", "input", "summary", "optgroup", "div", "iframe"},
        attributes \in InteractiveAttributes,
        rect \in {Box(0, 0, 100, 100), Box(0, 0, 100, 99), NoRect},
        cursor \in {"auto", "pointer"}}

InitIsInteractive == StartOn(InteractiveNodes)

NextIsInteractive == CallIsInteractive

SpecIsInteractive == InitIsInteractive /\ [][NextIsInteractive]_vars

\* C18: an element is interactive exactly when its tag is one of the interactive tags
\* (an input only when its type is not hidden), or its role is an interactive role, or
\* it has a click, keyboard or touch handler, or a tabindex >= 0, or contenteditable
\* "true" or "", or cursor pointer, or it is a frame at least 100 by 100; text nodes
\* and shadow roots are never interactive
InteractiveByRules ==
    pc = "done" =>
        LET node == rawTree[1]
            hiddenType == HasAttr(node, "type") /\ toLowerCase(node.attributes["type"]) = "hidden"
            tabindex == IF HasAttr(node, "tabindex") THEN parseInt(node.attributes["tabindex"])
                        ELSE << >>
            rule ==
                \/ node.tagName \in {"button", "select", "textarea", "a", "details",
                                     "summary", "option", "optgroup"}
                \/ node.tagName = "input" /\ ~hiddenType
                \/ HasAttr(node, "role")
                      /\ toLowerCase(node.attributes["role"]) \in INTERACTIVE_ROLES
                \/ \E handler \in EventHandlers \cup {"onclick"} : HasAttr(node, handler)
                \/ tabindex # << >> /\ tabindex[1] >= 0
                \/ AttrIs(node, "contenteditable", "true") \/ AttrIs(node, "contenteditable", "")
                \/ node.computedStyles.cursor = "pointer"
                \/ /\ node.isFrame
                   /\ node.boundingRect.width >= 100 /\ node.boundingRect.height >= 100
        IN  result[1] = (node.nodeType = "ELEMENT_NODE" /\ rule)

\* the place p is the place of a child of the node at q that comes before child k
EarlierSibling(p, q, k) ==
    /\ Len(p) = Len(q) + 1 /\ IsPrefix(q, p)
    /\ p[Len(p)] >= 1 /\ p[Len(p)] < k

\* C19: in the tree of one document, the paintOrder of a node is smaller than the
\* paintOrder of each of its descendants, and of two children of a node the earlier
\* and all its descendants have a smaller paintOrder than the later
PaintOrderPreOrder ==
    rawTree # << >> =>
        \A i, j \in 1..Len(MainNodes) :
            LET a == MainNodes[i]
                b == MainNodes[j]
            IN  /\ (i # j /\ IsPrefix(a.at, b.at)) => a.paintOrder < b.paintOrder
                /\ (/\ b.at # << >> /\ b.at[Len(b.at)] >= 1
                    /\ \E n \in 1..Len(a.at) :
                          EarlierSibling(SubSeq(a.at, 1, n),
                                         SubSeq(b.at, 1, Len(b.at) - 1),
                                         b.at[Len(b.at)]))
                        => a.paintOrder < b.paintOrder

(***************************************************************************)
(* Calls of isOccludedByPaintOrder on the first child of a root, with the  *)
(* flattened tree of the root as allNodes                                  *)
(***************************************************************************)
CallIsOccludedByPaintOrder ==
    /\ pc = "call"
    /\ result' = <<isOccludedByPaintOrder(rawTree[1].children[1], flattenTree(rawTree[1]))>>
    /\ pc' = "done"
    /\ UNCHANGED <<standalone, heap, registry, contexts, requests, inner, outer, pct, page, options, rawTree, visibleTree,
                   paintFiltered, bboxFiltered, previous, compounds>>

\* computed background colours, as the browser serializes them
OverlayColours ==
    {"", "transparent", "rgb(0, 0, 0)", "rgba(0, 0, 0, 0)", "rgba(0, 0, 0, 0.5)",
     "rgba(0, 0, 0, 0.9)", "color(srgb 0 0 0 / 0.5)"}

\* a root without box over a button and an overlay: the overlay has any of the
\* colours, is painted before, with or after the button, and covers all, half or
\* nothing of it
OcclusionTrees ==
    {[RawDOMNode("ELEMENT_NODE", "body", NoAttrs, << >>, NoRect, Shown) EXCEPT
        !.paintOrder = 3,
        !.children =
            <<[RawDOMNode("ELEMENT_NODE", "button", NoAttrs, << >>, rect, Shown)
                 EXCEPT !.paintOrder = 1],
              [RawDOMNode("ELEMENT_NODE", "div", NoAttrs, << >>, over,
                          ComputedStyles("block", "visible", "1", "auto", colour))
                 EXCEPT !.paintOrder = paintOrder]>>] :
        rect \in {NoRect, Box(0, 0, 2, 1)},
        over \in {NoRect, Box(0, 0, 2, 1), Box(1, 0, 2, 1), Box(0, 0, 4, 2), Box(0, 0, 4, 0)},
        colour \in OverlayColours,
        paintOrder \in {0, 1, 2}}

InitOcclusion == StartOn(OcclusionTrees)

NextOcclusion == CallIsOccludedByPaintOrder

SpecOcclusion == InitOcclusion /\ [][NextOcclusion]_vars

\* the alpha of a colour in hundredths, << >> when the colour gives none
AlphaOf(colour) ==
    CASE colour = "rgba(0, 0, 0, 0)" -> <<0>>
      [] colour = "rgba(0, 0, 0, 0.5)" -> <<50>>
      [] colour = "rgba(0, 0, 0, 0.9)" -> <<90>>
      [] colour = "color(srgb 0 0 0 / 0.5)" -> <<50>>
      [] OTHER -> << >>

\* C20: N is occluded exactly when its box has an area and some node with a greater
\* paintOrder has a box with an area that passes the 99% containment test
\* (isFullyContained) for the box of N and is opaque: its background colour is
\* present, not transparent, and has alpha >= 0.9 when it gives an alpha
OccludedByLaterOpaque ==
    pc = "done" =>
        LET allNodes == flattenTree(rawTree[1])
            N == rawTree[1].children[1]
            HasArea(n) == n.boundingRect.width * n.boundingRect.height # 0
            Opaque(n) ==
                LET colour == n.computedStyles.backgroundColor
                IN  /\ colour # "" /\ colour # "transparent"
                    /\ AlphaOf(colour) = << >> \/ AlphaOf(colour)[1] >= 90
        IN  result[1] =
                (/\ HasArea(N)
                 /\ \E i \in 1..Len(allNodes) :
                       /\ allNodes[i].paintOrder > N.paintOrder
                       /\ HasArea(allNodes[i])
                       /\ isFullyContained(N.boundingRect, allNodes[i].boundingRect)
                       /\ Opaque(allNodes[i]))

(***************************************************************************)
(* filters.ts: getExcludedNodeIds                                          *)
(***************************************************************************)
shouldExcludeFromPropagatingParent(child, parent) ==
    IF ~isPropagatingElement(parent) THEN FALSE
    ELSE IF ~isFullyContained(child.boundingRect, parent.boundingRect) THEN FALSE
    ELSE IF shouldKeepChildInPropagatingParent(child) THEN FALSE
    ELSE TRUE

\* checkBboxPropagation of getExcludedNodeIds: the nodeIds it adds to excluded
RECURSIVE checkBboxPropagation(_, _)
checkBboxPropagation(node, propagatingAncestor) ==
    LET isThisPropagating == isPropagatingElement(node)
        newAncestor == IF isThisPropagating THEN <<node>> ELSE propagatingAncestor
        ancestorToCheck == IF isThisPropagating THEN <<node>> ELSE propagatingAncestor
    IN  UNION {(IF /\ ancestorToCheck # << >>
                   /\ shouldExcludeFromPropagatingParent(node.children[i], ancestorToCheck[1])
                THEN {node.children[i].nodeId} ELSE {})
                    \cup checkBboxPropagation(node.children[i], newAncestor) :
                  i \in 1..Len(node.children)}
            \cup UNION {checkBboxPropagation(node.shadowRoots[i], newAncestor) :
                           i \in 1..Len(node.shadowRoots)}
            \cup UNION {checkBboxPropagation(node.contentDocument[i], << >>) :
                           i \in 1..Len(node.contentDocument)}

\* a variant of getExcludedNodeIds that checks the paint order only
getExcludedByPaintOrder(root) ==
    LET allNodes == flattenTree(root)
    IN  {allNodes[i].nodeId : i \in {k \in 1..Len(allNodes) :
            isInteractive(allNodes[k]) /\ isOccludedByPaintOrder(allNodes[k], allNodes)}}

\* the Set of nodeIds returned
getExcludedNodeIds(root) ==
    LET allNodes == flattenTree(root)
    IN  {allNodes[i].nodeId : i \in {k \in 1..Len(allNodes) :
            isInteractive(allNodes[k]) /\ isOccludedByPaintOrder(allNodes[k], allNodes)}}
            \cup checkBboxPropagation(root, << >>)

\* getExcludedNodeIds called on an extracted tree, before or after another direct call
CallGetExcludedNodeIds ==
    /\ pc \in {"extracted", "done"}
    /\ rawTree # << >> /\ result = << >>
    /\ result' = <<getExcludedNodeIds(rawTree[1])>>
    /\ pc' = "done"
    /\ UNCHANGED <<standalone, heap, registry, contexts, requests, inner, outer, pct, page, options, rawTree, visibleTree,
                   paintFiltered, bboxFiltered, previous, compounds>>

(***************************************************************************)
(* getExcludedNodeIds on the tree extracted from any page of buttons,      *)
(* opaque and transparent boxes and frames                                 *)
(***************************************************************************)
\* most nodes under the body
MaxExcludedNodes == 3

ExcludedLeaves ==
    {DomElement("BUTTON", NoAttrs, Box(0, 0, 2, 1), Shown),
     Painted("DIV", NoAttrs, Box(0, 0, 2, 1), "rgb(0, 0, 0)"),
     DomText(<<"hi">>)}

\* the frame lies away from the boxes of the page
ExcludedContainers ==
    {[fill |-> "children", el |-> DomElement("DIV", NoAttrs, Box(0, 0, 4, 2), Shown)],
     [fill |-> "children",
      el |-> Painted("DIV", NoAttrs, Box(0, 0, 4, 2), "rgb(255, 255, 255)")],
     [fill |-> "frame", el |-> DomElement("IFRAME", NoAttrs, Box(4, 4, 4, 2), Shown)]}

InitExcluded ==
    Start(Pages(MaxExcludedNodes, ExcludedLeaves, ExcludedContainers), {DefaultOptions})

NextExcluded == ExtractRawDOM \/ CallGetExcludedNodeIds

SpecExcluded == InitExcluded /\ [][NextExcluded]_vars

\* the place of the root of the document that holds the node at a place
RECURSIVE DocumentOf(_)
DocumentOf(at) ==
    IF at = << >> \/ at[Len(at)] = -1 THEN at
    ELSE DocumentOf(SubSeq(at, 1, Len(at) - 1))

\* the nodes of the extracted tree that belong to the document of node n
SameDocument(n) ==
    SelectSeq(flattenTree(rawTree[1]), LAMBDA m : DocumentOf(m.at) = DocumentOf(n.at))

\* C21: every nodeId that getExcludedNodeIds returns is the nodeId of a node dropped by
\* bounding box propagation, or of an interactive node that a node of its own document
\* occludes: no node is reported occluded on account of a node of another document
OccludedWithinDocument ==
    (pc = "done" /\ rawTree # << >> /\ result # << >>) =>
        LET raw == flattenTree(rawTree[1])
        IN  \A id \in result[1] :
               \/ id \in checkBboxPropagation(rawTree[1], << >>)
               \/ \E i \in 1..Len(raw) :
                     /\ raw[i].nodeId = id
                     /\ isInteractive(raw[i])
                     /\ isOccludedByPaintOrder(raw[i], SameDocument(raw[i]))

(***************************************************************************)
(* serializeTree on the tree extracted from any page of shadow hosts with  *)
(* and without text of their own                                           *)
(***************************************************************************)
\* most nodes under the body
MaxShadowNodes == 3

ShadowLeaves ==
    {DomElement("BUTTON", NoAttrs, Box(0, 0, 2, 1), Shown),
     DomText(<<"hi", "all">>)}

\* a plain container, a host, and a host with a text of its own
ShadowContainers ==
    {[fill |-> "children", el |-> DomElement("DIV", NoAttrs, Box(0, 0, 4, 2), Shown)],
     [fill |-> "shadow", el |-> DomElement("X-HOST", NoAttrs, Box(0, 0, 4, 2), Shown)],
     [fill |-> "shadow",
      el |-> [DomElement("X-HOST", NoAttrs, Box(0, 0, 4, 2), Shown)
                EXCEPT !.childNodes = <<DomText(<<"hi", "all">>)>>]]}

InitShadow == Start(Pages(MaxShadowNodes, ShadowLeaves, ShadowContainers), {DefaultOptions})

NextShadow == ExtractRawDOM \/ CallSerializeTree

SpecShadow == InitShadow /\ [][NextShadow]_vars

\* C22: on a tree whose nodes are all visible, serializeTree writes one shadow line for
\* each shadow root, each straight after the open tag of its host, one level deeper
\* (so before the children of the host), and every interactive element has an index,
\* those inside shadow trees included
ShadowHostsOpen ==
    (/\ pc = "done" /\ rawTree # << >> /\ result # << >>
     /\ \A i \in 1..Len(flattenTree(rawTree[1])) : isVisible(flattenTree(rawTree[1])[i])) =>
        LET raw == flattenTree(rawTree[1])
            lines == result[1].tree
            shadows == {i \in 1..Len(lines) : lines[i].form = "shadow"}
        IN  /\ Cardinality(shadows) =
                  Cardinality({i \in 1..Len(raw) : raw[i].nodeType = "DOCUMENT_FRAGMENT_NODE"})
            /\ \A i \in shadows :
                  /\ i > 1
                  /\ lines[i - 1].form = "open"
                  /\ lines[i - 1].indent = lines[i].indent - 1
            /\ \A i \in 1..Len(raw) : isInteractive(raw[i]) => IsIndexed(raw[i].el)

(***************************************************************************)
(* Calls of buildAttributeString on one node, with the default list        *)
(***************************************************************************)
CallBuildAttributeString ==
    /\ pc = "call"
    /\ result' = <<buildAttributeString(rawTree[1], DEFAULT_INCLUDE_ATTRIBUTES)>>
    /\ pc' = "done"
    /\ UNCHANGED <<standalone, heap, registry, contexts, requests, inner, outer, pct, page, options, rawTree, visibleTree,
                   paintFiltered, bboxFiltered, previous, compounds>>

\* the attributes of the nodes: each name with each of the values, or absent
AttributeNames == {"type", "name", "disabled", "title", "data-x"}
AttributeValues == {"", "x", "a<b", "disabled", "title"}

\* an input with any of the attributes: without a value, with its own name as value,
\* with values that repeat, and with a value to escape
AttributeNodes ==
    {RawDOMNode("ELEMENT_NODE", "input", attributes, << >>, Box(0, 0, 2, 1), Shown) :
        attributes \in UNION {[names -> AttributeValues] : names \in SUBSET AttributeNames}}

InitBuildAttributeString == StartOn(AttributeNodes)

NextBuildAttributeString == CallBuildAttributeString

SpecBuildAttributeString == InitBuildAttributeString /\ [][NextBuildAttributeString]_vars

\* the position of a name in a list that holds it
PositionIn(list, a) == CHOOSE i \in 1..Len(list) : list[i] = a

\* C23: buildAttributeString renders attributes of the list that the node has, in the
\* order of the list; an attribute of the list that the node has is rendered exactly
\* when no attribute rendered before it has its value; it is rendered as its bare name
\* when its value is empty or its own name, and as name="value" (escaped) otherwise
AttributesRendered ==
    pc = "done" =>
        LET node == rawTree[1]
            rendered == result[1]
            list == DEFAULT_INCLUDE_ATTRIBUTES
            present == {a \in DOMAIN node.attributes : \E i \in 1..Len(list) : list[i] = a}
            Rendered(a) == \E k \in 1..Len(rendered) : rendered[k].name = a
        IN  /\ \A k \in 1..Len(rendered) : rendered[k].name \in present
            /\ \A k, l \in 1..Len(rendered) :
                  k < l => PositionIn(list, rendered[k].name) < PositionIn(list, rendered[l].name)
            /\ \A a \in present :
                  Rendered(a) <=>
                      ~\E b \in present :
                          /\ PositionIn(list, b) < PositionIn(list, a)
                          /\ Rendered(b)
                          /\ node.attributes[b] = node.attributes[a]
            /\ \A k \in 1..Len(rendered) :
                  LET value == node.attributes[rendered[k].name]
                  IN  rendered[k].value =
                          IF value = "" \/ value = rendered[k].name THEN << >>
                          ELSE <<escapeAttribute(value)>>

(***************************************************************************)
(* filterByBboxPropagation and getExcludedNodeIds on the tree extracted    *)
(* from any page of buttons, plain containers, shadow hosts and frames     *)
(***************************************************************************)
\* most nodes under the body
MaxPropagationNodes == 3

PropagationLeaves ==
    {DomElement("SPAN", NoAttrs, Box(1, 0, 2, 1), Shown),
     DomElement("INPUT", "type" :> "checkbox", Box(1, 0, 1, 1), Shown),
     DomText(<<"hi">>)}

\* the host lies across the box of the button and the frame outside it
PropagationContainers ==
    {[fill |-> "children", el |-> DomElement("BUTTON", NoAttrs, Box(0, 0, 4, 2), Shown)],
     [fill |-> "children", el |-> DomElement("DIV", NoAttrs, Box(0, 0, 4, 2), Shown)],
     [fill |-> "shadow", el |-> DomElement("X-HOST", NoAttrs, Box(2, 0, 4, 2), Shown)],
     [fill |-> "frame", el |-> DomElement("IFRAME", NoAttrs, Box(4, 4, 4, 2), Shown)]}

InitPropagation ==
    Start(Pages(MaxPropagationNodes, PropagationLeaves, PropagationContainers),
          {DefaultOptions})

NextPropagation == ExtractRawDOM \/ CallFilterByBboxPropagation \/ CallGetExcludedNodeIds

SpecPropagation == InitPropagation /\ [][NextPropagation]_vars

\* the node at place p is in the tree that filterByBboxPropagation returned
KeptAt(p) == \E i \in 1..Len(Places(bboxFiltered)) : Places(bboxFiltered)[i] = p

\* a is an ancestor of c in the document of c
AncestorInDocument(a, c) ==
    /\ a.at # c.at /\ IsPrefix(a.at, c.at)
    /\ DocumentOf(a.at) = DocumentOf(c.at)

\* C24: of the nodes whose parent filterByBboxPropagation keeps, a child is dropped
\* exactly when its box passes the containment test against the nearest propagating
\* ancestor in its own document and it meets no keep exception; shadow roots and
\* content documents are kept.  So a node of a nested document is tested against
\* elements of that document only
BboxResetsAtFrames ==
    (pc = "done" /\ bboxFiltered # << >>) =>
        LET raw == flattenTree(rawTree[1])
        IN  \A i \in 1..Len(raw) :
               LET c == raw[i]
                   propagating == {j \in 1..Len(raw) :
                                      /\ AncestorInDocument(raw[j], c)
                                      /\ isPropagatingElement(raw[j])}
                   nearest == {j \in propagating :
                                  \A k \in propagating : Len(raw[k].at) <= Len(raw[j].at)}
               IN  (c.at # << >> /\ KeptAt(SubSeq(c.at, 1, Len(c.at) - 1))) =>
                      IF c.at[Len(c.at)] < 1 THEN KeptAt(c.at)
                      ELSE KeptAt(c.at) <=>
                              ~\E j \in nearest :
                                  /\ isFullyContained(c.boundingRect, raw[j].boundingRect)
                                  /\ ~KeepException(c)

\* a plain element of a frame document is kept although a propagating element of the
\* host page, an ancestor of the iframe, has a box that contains its box
KeptInsideFrameUnderButton ==
    /\ pc = "done" /\ bboxFiltered # << >>
    /\ LET raw == flattenTree(rawTree[1])
       IN  \E i, j \in 1..Len(raw) :
              /\ raw[i].tagName = "span" /\ ~KeepException(raw[i])
              /\ KeptAt(raw[i].at)
              /\ DocumentOf(raw[i].at) # << >>
              /\ IsPrefix(raw[j].at, raw[i].at)
              /\ DocumentOf(raw[j].at) = << >>
              /\ isPropagatingElement(raw[j])
              /\ isFullyContained(raw[i].boundingRect, raw[j].boundingRect)

\* C27: on a tree with unique nodeIds in which no interactive node is occluded by
\* paint order, a node is absent from the tree filterByBboxPropagation returns exactly
\* when getExcludedNodeIds returns its nodeId or the nodeId of one of its ancestors
ExcludedAgreesWithBbox ==
    (pc = "done" /\ bboxFiltered # << >> /\ result # << >>) =>
        LET raw == flattenTree(rawTree[1])
        IN  (/\ \A i, j \in 1..Len(raw) : i # j => raw[i].nodeId # raw[j].nodeId
             /\ \A i \in 1..Len(raw) :
                   ~(isInteractive(raw[i]) /\ isOccludedByPaintOrder(raw[i], raw))) =>
                \A i \in 1..Len(raw) :
                    ~KeptAt(raw[i].at) <=>
                        \E j \in 1..Len(raw) :
                            /\ IsPrefix(raw[j].at, raw[i].at)
                            /\ raw[j].nodeId \in result[1]

\* both functions have run on a tree with unique nodeIds; a node is absent from the
\* filtered tree with its own nodeId not excluded and the nodeId of its parent
\* excluded, and another node under the body is kept
AbsentUnderExcluded ==
    /\ pc = "done" /\ bboxFiltered # << >> /\ result # << >>
    /\ LET raw == flattenTree(rawTree[1])
       IN  /\ \A i, j \in 1..Len(raw) : i # j => raw[i].nodeId # raw[j].nodeId
           /\ \E i, j, k \in 1..Len(raw) :
                 /\ ~KeptAt(raw[i].at) /\ raw[i].nodeId \notin result[1]
                 /\ raw[j].at # raw[i].at /\ IsPrefix(raw[j].at, raw[i].at)
                 /\ raw[j].nodeId \in result[1]
                 /\ Len(raw[k].at) = 1 /\ KeptAt(raw[k].at)

(***************************************************************************)
(* The filtering stages on node objects.  objects is the sequence of the   *)
(* RawDOMNode objects allocated so far and a reference is a position in    *)
(* it; the children, shadowRoots and contentDocument of an object hold     *)
(* references.  A function returns the objects after the call and the      *)
(* reference it returns (<< >> for null).                                  *)
(***************************************************************************)
\* the objects of a tree, as the extraction allocates them
RECURSIVE Load(_, _)
RECURSIVE LoadList(_, _)
LoadList(objects, nodes) ==
    IF nodes = << >> THEN [objects |-> objects, refs |-> << >>]
    ELSE LET first == Load(objects, Head(nodes))
             rest == LoadList(first.objects, Tail(nodes))
         IN  [objects |-> rest.objects, refs |-> first.ref \o rest.refs]

Load(objects, node) ==
    LET c == LoadList(objects, node.children)
        s == LoadList(c.objects, node.shadowRoots)
        d == LoadList(s.objects, node.contentDocument)
    IN  [objects |-> Append(d.objects,
                            [node EXCEPT !.children = c.refs, !.shadowRoots = s.refs,
                                         !.contentDocument = d.refs]),
         ref |-> <<Len(d.objects) + 1>>]

\* the tree a caller reads from a reference
RECURSIVE TreeAt(_, _)
TreeAt(objects, ref) ==
    LET o == objects[ref]
    IN  [o EXCEPT
            !.children = [i \in 1..Len(o.children) |-> TreeAt(objects, o.children[i])],
            !.shadowRoots = [i \in 1..Len(o.shadowRoots) |-> TreeAt(objects, o.shadowRoots[i])],
            !.contentDocument =
                [i \in 1..Len(o.contentDocument) |-> TreeAt(objects, o.contentDocument[i])]]

\* a variant of filterVisibleNodes that writes the filtered lists into the node it is
\* given and returns that node
RECURSIVE filterVisibleNodesInPlace(_, _)
RECURSIVE FilterVisibleListInPlace(_, _)
FilterVisibleListInPlace(objects, refs) ==
    IF refs = << >> THEN [objects |-> objects, refs |-> << >>]
    ELSE LET first == filterVisibleNodesInPlace(objects, Head(refs))
             rest == FilterVisibleListInPlace(first.objects, Tail(refs))
         IN  [objects |-> rest.objects, refs |-> first.ref \o rest.refs]

filterVisibleNodesInPlace(objects, ref) ==
    IF ~isVisible(objects[ref]) THEN [objects |-> objects, ref |-> << >>]
    ELSE LET c == FilterVisibleListInPlace(objects, objects[ref].children)
             s == FilterVisibleListInPlace(c.objects, objects[ref].shadowRoots)
             d == FilterVisibleListInPlace(s.objects, objects[ref].contentDocument)
         IN  [objects |-> [d.objects EXCEPT ![ref].children = c.refs,
                                            ![ref].shadowRoots = s.refs,
                                            ![ref].contentDocument = d.refs],
              ref |-> <<ref>>]

\* filterVisibleNodes: a new object for each node kept
RECURSIVE filterVisibleNodesOf(_, _)
RECURSIVE FilterVisibleListOf(_, _)
FilterVisibleListOf(objects, refs) ==
    IF refs = << >> THEN [objects |-> objects, refs |-> << >>]
    ELSE LET first == filterVisibleNodesOf(objects, Head(refs))
             rest == FilterVisibleListOf(first.objects, Tail(refs))
         IN  [objects |-> rest.objects, refs |-> first.ref \o rest.refs]

filterVisibleNodesOf(objects, ref) ==
    IF ~isVisible(objects[ref]) THEN [objects |-> objects, ref |-> << >>]
    ELSE LET c == FilterVisibleListOf(objects, objects[ref].children)
             s == FilterVisibleListOf(c.objects, objects[ref].shadowRoots)
             d == FilterVisibleListOf(s.objects, objects[ref].contentDocument)
         IN  [objects |-> Append(d.objects,
                                 [d.objects[ref] EXCEPT !.children = c.refs,
                                                        !.shadowRoots = s.refs,
                                                        !.contentDocument = d.refs]),
              ref |-> <<Len(d.objects) + 1>>]

\* processNode of filterByPaintOrder: a new object for each node
RECURSIVE PaintProcessNodeOf(_, _)
RECURSIVE PaintProcessListOf(_, _)
PaintProcessListOf(objects, refs) ==
    IF refs = << >> THEN [objects |-> objects, refs |-> << >>]
    ELSE LET first == PaintProcessNodeOf(objects, Head(refs))
             rest == PaintProcessListOf(first.objects, Tail(refs))
         IN  [objects |-> rest.objects, refs |-> first.ref \o rest.refs]

PaintProcessNodeOf(objects, ref) ==
    LET c == PaintProcessListOf(objects, objects[ref].children)
        s == PaintProcessListOf(c.objects, objects[ref].shadowRoots)
        d == PaintProcessListOf(s.objects, objects[ref].contentDocument)
    IN  [objects |-> Append(d.objects,
                            [d.objects[ref] EXCEPT !.children = c.refs,
                                                   !.shadowRoots = s.refs,
                                                   !.contentDocument = d.refs]),
         ref |-> <<Len(d.objects) + 1>>]

filterByPaintOrderOf(objects, root) == PaintProcessNodeOf(objects, root)

\* processNode of filterByBboxPropagation: propagatingAncestor is << >> (null) or a
\* reference; a new object for each node kept
RECURSIVE BboxProcessNodeOf(_, _, _)
RECURSIVE BboxProcessChildrenOf(_, _, _, _)
BboxProcessChildrenOf(objects, children, ancestorToCheck, newPropagatingAncestor) ==
    IF children = << >> THEN [objects |-> objects, refs |-> << >>]
    ELSE LET child == objects[Head(children)]
         IN  IF /\ ancestorToCheck # << >>
                /\ isFullyContained(child.boundingRect,
                                    objects[ancestorToCheck[1]].boundingRect)
                /\ ~shouldKeepChildInPropagatingParent(child)
             THEN BboxProcessChildrenOf(objects, Tail(children), ancestorToCheck,
                                        newPropagatingAncestor)
             ELSE LET first == BboxProcessNodeOf(objects, Head(children),
                                                 newPropagatingAncestor)
                      rest == BboxProcessChildrenOf(first.objects, Tail(children),
                                                    ancestorToCheck, newPropagatingAncestor)
                  IN  [objects |-> rest.objects, refs |-> first.ref \o rest.refs]

RECURSIVE BboxProcessListOf(_, _, _)
BboxProcessListOf(objects, refs, propagatingAncestor) ==
    IF refs = << >> THEN [objects |-> objects, refs |-> << >>]
    ELSE LET first == BboxProcessNodeOf(objects, Head(refs), propagatingAncestor)
             rest == BboxProcessListOf(first.objects, Tail(refs), propagatingAncestor)
         IN  [objects |-> rest.objects, refs |-> first.ref \o rest.refs]

BboxProcessNodeOf(objects, ref, propagatingAncestor) ==
    LET isThisPropagating == isPropagatingElement(objects[ref])
        newPropagatingAncestor == IF isThisPropagating THEN <<ref>> ELSE propagatingAncestor
        ancestorToCheck == IF isThisPropagating THEN <<ref>> ELSE propagatingAncestor
        c == BboxProcessChildrenOf(objects, objects[ref].children, ancestorToCheck,
                                   newPropagatingAncestor)
        s == BboxProcessListOf(c.objects, objects[ref].shadowRoots, newPropagatingAncestor)
        d == BboxProcessListOf(s.objects, objects[ref].contentDocument, << >>)
    IN  [objects |-> Append(d.objects,
                            [d.objects[ref] EXCEPT !.children = c.refs,
                                                   !.shadowRoots = s.refs,
                                                   !.contentDocument = d.refs]),
         ref |-> <<Len(d.objects) + 1>>]

filterByBboxPropagationOf(objects, root) == BboxProcessNodeOf(objects, root, << >>)

(***************************************************************************)
(* The three stages called one after the other on the objects of an        *)
(* extracted tree; the caller keeps the tree each stage returned           *)
(* (rawTree, visibleTree, paintFiltered, bboxFiltered) as it read it then, *)
(* and heap.roots holds the references to them                             *)
(***************************************************************************)
\* most nodes under the body
MaxHeapNodes == 3

HeapLeaves ==
    {DomElement("SPAN", NoAttrs, Box(1, 0, 2, 1), Shown),
     Styled("SPAN", NoAttrs, Box(0, 0, 2, 1), "none", "visible", "1"),
     DomText(<<"hi">>)}

HeapContainers ==
    {[fill |-> "children", el |-> DomElement("BUTTON", NoAttrs, Box(0, 0, 4, 2), Shown)],
     [fill |-> "shadow", el |-> DomElement("X-HOST", NoAttrs, Box(0, 0, 4, 2), Shown)],
     [fill |-> "frame", el |-> DomElement("IFRAME", NoAttrs, Box(0, 0, 4, 2), Shown)]}

InitHeap ==
    /\ pc = "call"
    /\ page \in {p \in Pages(MaxHeapNodes, HeapLeaves, HeapContainers) : p.body # << >>}
    /\ rawTree = extractRawDOM(page)
    /\ heap = LET loaded == Load(<< >>, rawTree[1])
              IN  [objects |-> loaded.objects, roots |-> loaded.ref]
    /\ options = << >>
    /\ inner = << >> /\ outer = << >> /\ pct = << >>
    /\ visibleTree = << >> /\ paintFiltered = << >>
    /\ bboxFiltered = << >> /\ result = << >> /\ previous = << >>
    /\ compounds = << >> /\ standalone = << >> /\ ServerDown

CallFilterVisibleNodesOf ==
    /\ pc = "call"
    /\ LET out == filterVisibleNodesOf(heap.objects, heap.roots[1])
       IN  /\ heap' = [objects |-> out.objects, roots |-> heap.roots \o out.ref]
           /\ visibleTree' = IF out.ref = << >> THEN << >>
                             ELSE <<TreeAt(out.objects, out.ref[1])>>
           /\ pc' = IF out.ref = << >> THEN "done" ELSE "visible"
    /\ UNCHANGED <<standalone, registry, contexts, requests, inner, outer, pct, page,
                   options, rawTree, paintFiltered, bboxFiltered, result, previous,
                   compounds>>

CallFilterByPaintOrderOf ==
    /\ pc = "visible" /\ Len(heap.roots) = 2
    /\ LET out == filterByPaintOrderOf(heap.objects, heap.roots[2])
       IN  /\ heap' = [objects |-> out.objects, roots |-> heap.roots \o out.ref]
           /\ paintFiltered' = <<TreeAt(out.objects, out.ref[1])>>
           /\ pc' = "painted"
    /\ UNCHANGED <<standalone, registry, contexts, requests, inner, outer, pct, page,
                   options, rawTree, visibleTree, bboxFiltered, result, previous,
                   compounds>>

CallFilterByBboxPropagationOf ==
    /\ pc = "painted" /\ Len(heap.roots) = 3
    /\ LET out == filterByBboxPropagationOf(heap.objects, heap.roots[3])
       IN  /\ heap' = [objects |-> out.objects, roots |-> heap.roots \o out.ref]
           /\ bboxFiltered' = <<TreeAt(out.objects, out.ref[1])>>
           /\ pc' = "done"
    /\ UNCHANGED <<standalone, registry, contexts, requests, inner, outer, pct, page,
                   options, rawTree, visibleTree, paintFiltered, result, previous,
                   compounds>>

NextHeap ==
    \/ CallFilterVisibleNodesOf
    \/ CallFilterByPaintOrderOf
    \/ CallFilterByBboxPropagationOf

SpecHeap == InitHeap /\ [][NextHeap]_vars

\* C25: a filtering stage leaves every object that existed before it as it was, so
\* the tree a caller reads from the root of an earlier stage is the tree that stage
\* returned
StagesKeepInput ==
    /\ [][\A ref \in 1..Len(heap.objects) : heap'.objects[ref] = heap.objects[ref]]_vars
    /\ [](heap # << >> =>
            /\ TreeAt(heap.objects, heap.roots[1]) = rawTree[1]
            /\ Len(heap.roots) >= 2 => TreeAt(heap.objects, heap.roots[2]) = visibleTree[1]
            /\ Len(heap.roots) >= 3 => TreeAt(heap.objects, heap.roots[3]) = paintFiltered[1]
            /\ Len(heap.roots) >= 4 => TreeAt(heap.objects, heap.roots[4]) = bboxFiltered[1])

\* the three stages have run; the first and the third have dropped nodes
StagesDroppedNodes ==
    /\ pc = "done" /\ heap # << >> /\ Len(heap.roots) = 4
    /\ Len(flattenTree(visibleTree[1])) < Len(flattenTree(rawTree[1]))
    /\ Len(flattenTree(bboxFiltered[1])) < Len(flattenTree(paintFiltered[1]))

\* the nodes of the extracted tree that are not ancestors of node n
NotAncestors(n) ==
    SelectSeq(flattenTree(rawTree[1]), LAMBDA m : m.at = n.at \/ ~IsPrefix(m.at, n.at))

\* C28: every nodeId that getExcludedNodeIds returns for an extracted tree is the
\* nodeId of a node dropped by bounding box propagation, or of an interactive node
\* occluded by a node that is not one of its ancestors: a container does not occlude
\* its own descendant
NotOccludedByAncestor ==
    (pc = "done" /\ rawTree # << >> /\ result # << >>) =>
        LET raw == flattenTree(rawTree[1])
        IN  \A id \in result[1] :
               \/ id \in checkBboxPropagation(rawTree[1], << >>)
               \/ \E i \in 1..Len(raw) :
                     /\ raw[i].nodeId = id
                     /\ isInteractive(raw[i])
                     /\ isOccludedByPaintOrder(raw[i], NotAncestors(raw[i]))

(***************************************************************************)
(* serialize.ts: assignIndices and buildSelectorMap                        *)
(***************************************************************************)
\* walk of assignIndices: a is index and nodeToIndex so far
RECURSIVE AssignWalk(_, _)
RECURSIVE AssignWalkList(_, _)
AssignWalkList(nodes, a) ==
    IF nodes = << >> THEN a
    ELSE AssignWalkList(Tail(nodes), AssignWalk(Head(nodes), a))

AssignWalk(node, a) ==
    LET here == IF isInteractive(node) /\ isVisible(node)
                THEN [index |-> a.index + 1,
                      nodeToIndex |->
                          [id \in DOMAIN a.nodeToIndex \cup {node.nodeId} |->
                              IF id = node.nodeId THEN a.index + 1 ELSE a.nodeToIndex[id]]]
                ELSE a
    IN  AssignWalkList(node.contentDocument,
                       AssignWalkList(node.shadowRoots, AssignWalkList(node.children, here)))

\* the Map from nodeId to index
assignIndices(root) == AssignWalk(root, [index |-> 0, nodeToIndex |-> NoMap]).nodeToIndex

\* walk of buildSelectorMap: b is selectorMap so far, and for each index the live
\* element of the node that set it
RECURSIVE SelectorWalk(_, _, _, _)
RECURSIVE SelectorWalkList(_, _, _, _)
SelectorWalkList(nodes, ancestors, nodeToIndex, b) ==
    IF nodes = << >> THEN b
    ELSE SelectorWalkList(Tail(nodes), ancestors, nodeToIndex,
                          SelectorWalk(Head(nodes), ancestors, nodeToIndex, b))

SelectorWalk(node, ancestors, nodeToIndex, b) ==
    LET here ==
            IF node.nodeId \in DOMAIN nodeToIndex
            THEN LET index == nodeToIndex[node.nodeId]
                 IN  [selectorMap |->
                          [k \in DOMAIN b.selectorMap \cup {index} |->
                              IF k = index THEN buildSelector(node, ancestors)
                              ELSE b.selectorMap[k]],
                      elements |->
                          [k \in DOMAIN b.elements \cup {index} |->
                              IF k = index THEN node.el ELSE b.elements[k]]]
            ELSE b
    IN  SelectorWalkList(node.contentDocument, << >>, nodeToIndex,
            SelectorWalkList(node.shadowRoots, Append(ancestors, node), nodeToIndex,
                SelectorWalkList(node.children, Append(ancestors, node), nodeToIndex, here)))

buildSelectorMap(root, nodeToIndex) ==
    SelectorWalk(root, << >>, nodeToIndex, [selectorMap |-> NoMap, elements |-> NoMap])

\* the standalone pair called on the tree that serializeTree was called on
CallBuildSelectorMap ==
    /\ pc = "done" /\ bboxFiltered # << >> /\ standalone = << >>
    /\ standalone' = <<buildSelectorMap(bboxFiltered[1], assignIndices(bboxFiltered[1]))>>
    /\ UNCHANGED <<pc, heap, registry, contexts, requests, inner, outer, pct, page, options,
                   rawTree, visibleTree, paintFiltered, bboxFiltered, result, previous,
                   compounds>>

(***************************************************************************)
(* getLLMTree and the standalone pair on any page of buttons, hidden       *)
(* elements, shadow hosts with and without children, and frames            *)
(***************************************************************************)
\* most nodes under the body
MaxStandaloneNodes == 3

StandaloneLeaves ==
    {DomElement("BUTTON", NoAttrs, Box(0, 0, 2, 1), Shown),
     DomElement("INPUT", "name" :> "q", Box(0, 4, 2, 1), Shown),
     DomText(<<"hi">>)}

\* a plain container, a host, a host with a child of its own, a small frame and a
\* frame large enough to be interactive
StandaloneContainers ==
    {[fill |-> "children", el |-> DomElement("DIV", NoAttrs, Box(0, 0, 4, 2), Shown)],
     [fill |-> "shadow", el |-> DomElement("X-HOST", NoAttrs, Box(0, 0, 4, 2), Shown)],
     [fill |-> "shadow",
      el |-> [DomElement("X-HOST", NoAttrs, Box(0, 0, 4, 2), Shown)
                EXCEPT !.childNodes = <<DomElement("BUTTON", NoAttrs, Box(0, 0, 2, 1), Shown)>>]],
     [fill |-> "frame", el |-> DomElement("IFRAME", NoAttrs, Box(0, 0, 4, 2), Shown)],
     [fill |-> "frame", el |-> DomElement("IFRAME", NoAttrs, Box(0, 0, 100, 100), Shown)]}

InitStandalone ==
    Start(Pages(MaxStandaloneNodes, StandaloneLeaves, StandaloneContainers), {DefaultOptions})

NextStandalone ==
    \/ ExtractRawDOM
    \/ FilterVisibleNodes
    \/ FilterByPaintOrder
    \/ FilterByBboxPropagation
    \/ SerializeTree
    \/ CallBuildSelectorMap

SpecStandalone == InitStandalone /\ [][NextStandalone]_vars

\* C26: on the fully filtered tree, buildSelectorMap(root, assignIndices(root)) is the
\* selector map of serializeTree(root): the same indices, each with the same selector
\* and set by the same node
StandaloneAgrees ==
    standalone # << >> =>
        /\ standalone[1].selectorMap = result[1].selectorMap
        /\ standalone[1].elements = result[1].elements

(***************************************************************************)
(* Two getLLMTree calls with a change of the page between them: a script   *)
(* of the page inserts one element, and the caller hands the nodeIds of    *)
(* the first extraction to the second call as previousState                *)
(***************************************************************************)
\* the element the page inserts
InsertedElement == DomElement("BUTTON", "title" :> "new", Box(0, 4, 2, 1), Shown)

\* parent.insertBefore(new, parent.childNodes[k]) for the element parent at path
RECURSIVE InsertAt(_, _, _, _)
InsertAt(node, path, k, new) ==
    IF path = << >>
    THEN [node EXCEPT !.childNodes =
            SubSeq(node.childNodes, 1, k - 1) \o <<new>>
                \o SubSeq(node.childNodes, k, Len(node.childNodes))]
    ELSE [node EXCEPT !.childNodes[Head(path)] = InsertAt(@, Tail(path), k, new)]

\* the page has the inserted element
HasInserted ==
    /\ page.body # << >>
    /\ \E path \in LightPaths(page.body[1], << >>) :
          ElementAt(page.body[1], path) = InsertedElement

InsertElement ==
    /\ pc = "done" /\ previous = << >>
    /\ page.body # << >> /\ ~HasInserted
    /\ \E path \in LightPaths(page.body[1], << >>) :
          \E k \in 1..(Len(ElementAt(page.body[1], path).childNodes) + 1) :
              page' = [page EXCEPT !.body = <<InsertAt(page.body[1], path, k, InsertedElement)>>]
    /\ UNCHANGED <<pc, standalone, heap, registry, contexts, requests, inner, outer, pct,
                   options, rawTree, visibleTree, paintFiltered, bboxFiltered, result,
                   previous, compounds>>

\* the second call: previousState holds the nodeIds of the first extraction
CallWithPreviousState ==
    /\ pc = "done" /\ previous = << >> /\ rawTree # << >>
    /\ options' = [options EXCEPT !.previousState =
                      <<{flattenTree(rawTree[1])[i].nodeId :
                            i \in 1..Len(flattenTree(rawTree[1]))}>>]
    /\ previous' = result
    /\ rawTree' = << >> /\ visibleTree' = << >> /\ paintFiltered' = << >>
    /\ bboxFiltered' = << >> /\ result' = << >>
    /\ pc' = "getLLMTree"
    /\ UNCHANGED <<standalone, heap, registry, contexts, requests, inner, outer, pct, page,
                   compounds>>

\* most nodes under the body before the insertion
MaxInsertNodes == 2

InsertLeaves ==
    {DomElement("BUTTON", NoAttrs, Box(0, 0, 2, 1), Shown),
     DomText(<<"hi">>)}

InsertContainers ==
    {[fill |-> "children", el |-> DomElement("DIV", NoAttrs, Box(0, 0, 4, 2), Shown)],
     [fill |-> "children", el |-> DomElement("A", "href" :> "/x", Box(0, 0, 4, 2), Shown)]}

InitInsert == Start(Pages(MaxInsertNodes, InsertLeaves, InsertContainers), {DefaultOptions})

NextInsert ==
    \/ ExtractRawDOM
    \/ FilterVisibleNodes
    \/ FilterByPaintOrder
    \/ FilterByBboxPropagation
    \/ SerializeTree
    \/ InsertElement
    \/ CallWithPreviousState

SpecInsert == InitInsert /\ [][NextInsert]_vars

\* C29: in the result of the second call, the line of an indexed element carries the
\* star exactly when the element is the one inserted after the first call
StarOnInsertedOnly ==
    (pc = "done" /\ previous # << >> /\ rawTree # << >> /\ result # << >>) =>
        LET raw == flattenTree(rawTree[1])
        IN  \A k \in DOMAIN result[1].elements :
               \A i \in 1..Len(raw) :
                  raw[i].el = result[1].elements[k] =>
                      (LineOf(result[1].tree, k).prefix.isNew
                          <=> AttrIs(raw[i], "title", "new"))

(***************************************************************************)
(* index.ts: serve, the page registry.  A handler runs without             *)
(* interruption up to an await; while it waits, other handlers run.  A     *)
(* browser context is the record of the name it was created for and        *)
(* whether it is closed, and is named by its position in contexts; a       *)
(* request is the record of its route, its name, where its handler waits   *)
(* ("done" when it has responded), the context it holds and the status of  *)
(* its response.                                                           *)
(***************************************************************************)
\* most requests the server receives
MaxRequests == 3

\* the names the clients ask for
PageNames == {"a", "b"}

Request(route, name, at, context, status) ==
    [route |-> route, name |-> name, at |-> at, context |-> context, status |-> status]

\* the state after serve() has started listening
InitServe ==
    /\ pc = "serving"
    /\ registry = NoMap /\ contexts = << >> /\ requests = << >>
    /\ page = << >> /\ options = << >>
    /\ inner = << >> /\ outer = << >> /\ pct = << >>
    /\ rawTree = << >> /\ visibleTree = << >> /\ paintFiltered = << >>
    /\ bboxFiltered = << >> /\ result = << >> /\ previous = << >>
    /\ compounds = << >> /\ standalone = << >> /\ heap = << >>

\* GET /pages
GetPages ==
    /\ pc = "serving" /\ Len(requests) < MaxRequests
    /\ requests' = Append(requests, Request("GET /pages", "", "done", << >>, 200))
    /\ UNCHANGED <<pc, standalone, heap, registry, contexts, inner, outer, pct, page,
                   options, rawTree, visibleTree, paintFiltered, bboxFiltered, result,
                   previous, compounds>>

\* POST /pages up to the response or to await browser.newContext(); name is '' when
\* the body has no name
PostPages(name) ==
    /\ pc = "serving" /\ Len(requests) < MaxRequests
    /\ requests' =
          Append(requests,
                 IF name = "" THEN Request("POST /pages", name, "done", << >>, 400)
                 ELSE IF name \notin DOMAIN registry
                 THEN Request("POST /pages", name, "newContext", << >>, 0)
                 ELSE Request("POST /pages", name, "done", << >>, 200))
    /\ UNCHANGED <<pc, standalone, heap, registry, contexts, inner, outer, pct, page,
                   options, rawTree, visibleTree, paintFiltered, bboxFiltered, result,
                   previous, compounds>>

\* browser.newContext() resolves; the handler goes on to await context.addInitScript
NewContextResolved(r) ==
    /\ requests[r].at = "newContext"
    /\ contexts' = Append(contexts, [name |-> requests[r].name, closed |-> FALSE])
    /\ requests' = [requests EXCEPT ![r].context = <<Len(contexts) + 1>>,
                                    ![r].at = "addInitScript"]
    /\ UNCHANGED <<pc, standalone, heap, registry, inner, outer, pct, page,
                   options, rawTree, visibleTree, paintFiltered, bboxFiltered, result,
                   previous, compounds>>

\* context.addInitScript resolves; the handler goes on to await context.newPage()
AddInitScriptResolved(r) ==
    /\ requests[r].at = "addInitScript"
    /\ requests' = [requests EXCEPT ![r].at = "newPage"]
    /\ UNCHANGED <<pc, standalone, heap, registry, contexts, inner, outer, pct, page,
                   options, rawTree, visibleTree, paintFiltered, bboxFiltered, result,
                   previous, compounds>>

\* context.newPage() resolves; registry.set(name, context) and the response
NewPageResolved(r) ==
    /\ requests[r].at = "newPage"
    /\ registry' = [n \in DOMAIN registry \cup {requests[r].name} |->
                       IF n = requests[r].name THEN requests[r].context[1] ELSE registry[n]]
    /\ requests' = [requests EXCEPT ![r].at = "done", ![r].status = 200]
    /\ UNCHANGED <<pc, standalone, heap, contexts, inner, outer, pct, page,
                   options, rawTree, visibleTree, paintFiltered, bboxFiltered, result,
                   previous, compounds>>

\* DELETE /pages/:name up to the 404 response or to await context.close()
DeletePage(name) ==
    /\ pc = "serving" /\ Len(requests) < MaxRequests
    /\ requests' =
          Append(requests,
                 IF name \in DOMAIN registry
                 THEN Request("DELETE /pages/:name", name, "close", <<registry[name]>>, 0)
                 ELSE Request("DELETE /pages/:name", name, "done", << >>, 404))
    /\ UNCHANGED <<pc, standalone, heap, registry, contexts, inner, outer, pct, page,
                   options, rawTree, visibleTree, paintFiltered, bboxFiltered, result,
                   previous, compounds>>

\* context.close() resolves; registry.delete(name) and the response
CloseResolved(r) ==
    /\ requests[r].at = "close"
    /\ contexts' = [contexts EXCEPT ![requests[r].context[1]].closed = TRUE]
    /\ registry' = [n \in DOMAIN registry \ {requests[r].name} |-> registry[n]]
    /\ requests' = [requests EXCEPT ![r].at = "done", ![r].status = 200]
    /\ UNCHANGED <<pc, standalone, heap, inner, outer, pct, page,
                   options, rawTree, visibleTree, paintFiltered, bboxFiltered, result,
                   previous, compounds>>

NextServe ==
    \/ GetPages
    \/ \E name \in PageNames \cup {""} : PostPages(name)
    \/ \E name \in PageNames : DeletePage(name)
    \/ \E r \in 1..Len(requests) :
          \/ NewContextResolved(r)
          \/ AddInitScriptResolved(r)
          \/ NewPageResolved(r)
          \/ CloseResolved(r)

SpecServe == InitServe /\ [][NextServe]_vars

\* C30: when every request has its response, every context that was created and is
\* not closed is the context the registry holds for the name it was created for; so
\* there is at most one such context for a name, and none outside the registry
OneContextPerName ==
    (pc = "serving" /\ \A r \in 1..Len(requests) : requests[r].at = "done") =>
        \A c \in 1..Len(contexts) :
            ~contexts[c].closed =>
                /\ contexts[c].name \in DOMAIN registry
                /\ registry[contexts[c].name] = c

====
